---- MODULE Spec2Model ----
(***************************************************************************)
(* Request-admission core of greenlight (cmd/api): the middleware chain    *)
(* PanicRecovery -> enableCORS -> RateLimit -> router -> Auth ->            *)
(* requireActivatedUser -> requirePermission -> handler, with the          *)
(* two-tier token-bucket rate limiter, its per-client map, the RWMutex     *)
(* that guards it and the per-entry expiry goroutines.                     *)
(***************************************************************************)
EXTENDS Integers, Sequences, FiniteSets, Bags, TLC

(***************************************************************************)
(* Bounds of the model.                                                    *)
(***************************************************************************)
MaxInFlight == 2
MaxRequests == 3
MaxRate == 2
MaxRefills == 2
MaxJobs == 2
MaxTokens == 2
SatRate == 10
SatExtra == 2

(***************************************************************************)
(* Request inputs.                                                         *)
(***************************************************************************)
Addrs == {"A", "B"}
Malformed == "malformed"
RemoteAddrs == Addrs \cup {Malformed}

\* middleware.go:51 and :54, burst = rate + rate/10 on int64
BurstNoTenth(rate) == rate
BurstSize(rate) == rate + rate \div 10


VARIABLES
    config,     \* app.config.rateLimit: enabled, globalRateLimit, perClientRateLimit
    env,        \* the clients: concurrent connections, requests sent in all, their addresses and inputs
    nRL,        \* tokens of the global limiter nRL
    pcnRL,      \* the per-client map: address -> entry id, 0 when absent
    ent,        \* ClientRateLimiter objects: tokens of Limit, state of LastAccess
    exp,        \* expiry goroutines, one per created entry
    mu,         \* sync.RWMutex: reader count and announced writer
    req,        \* the bag of requests in flight inside RateLimit: position, address, read locks held
    last,       \* the exchange of the request that finished last
    started,    \* requests accepted so far
    crashed,    \* the process died (fatal error or unrecovered panic)
    passed,     \* requests the global limiter admitted before its first refill
    refills,    \* tokens the global limiter gained since start
    leaked,     \* per address, read locks still held by requests that have returned
    grants,     \* the store's user_permissions rows: user id -> permission codes granted
    wg,         \* app.wg, the counter of the sync.WaitGroup
    jobs,       \* the bag of background-job goroutines that have not ended
    regs,       \* the bag of registerUserHandler calls in flight
    mainPc,     \* where Api() is: in ListenAndServe, receiving from shutdownErr, returned
    gsPc,       \* where the gracefulShutdown goroutine is
    jobLog,     \* history of the jobs: dispatched, ended, panics, and whether Shutdown hit its deadline
    users,      \* the store's users rows registered while the server runs
    tokenRows,  \* the store's tokens rows
    issued,     \* history of the tokens the issuing calls returned, plaintext included
    acts,       \* the bag of userActivationHandler calls in flight
    lastAct,    \* the activation exchange that finished last
    ok200,      \* history: the users an activation answered 200 for, once per answer
    movies,     \* the store's movies rows: id -> row
    upds,       \* the bag of updateMovieHandler calls in flight
    lastUpd,    \* the update exchange that finished last
    pw,         \* a data.Password value and the call made on it
    updLog,     \* history: the Movies.Update calls that returned, by movie, version read and answer
    lastReg     \* the registration that was answered with an error last

jobVars == <<wg, jobs, regs, mainPc, gsPc, jobLog>>
dataVars == <<users, tokenRows, issued>>
sideVars == <<acts, lastAct, ok200, movies, upds, lastUpd, pw, updLog, lastReg>>
vars == <<config, env, nRL, pcnRL, ent, exp, mu, req, last, started, crashed,
          passed, refills, leaked, grants, jobVars, dataVars, sideVars>>

\* time.Timer: running (since NewTimer or since Reset) or not, and whether C holds a value
NewTimer == [running |-> "new", full |-> FALSE]
NoTimer == [running |-> "no", full |-> FALSE]
NoEntry == [tokens |-> 0, timer |-> NoTimer]
NoneLeaked == [rejected |-> 0, other |-> 0]
NoTask == [pc |-> "none", addr |-> "none", waitOn |-> 0]


(***************************************************************************)
(* The identity store as the middleware reads it.                          *)
(***************************************************************************)
ActivationScope == "activation"
AuthenticationScope == "BearerAuthentication"
AnonymousUser == "anonymous"

Users == {"u1", "u2", "u3"}
Activated(u) == u \in {"u1", "u2"}
Grants(u) ==
    CASE u = "u1" -> {"movies:read", "movies:write"}
      [] u = "u2" -> {"movies:read"}
      [] u = "u3" -> {"movies:read"}
      [] OTHER -> {}

\* sha256.Sum256([]byte(plaintext)): a one-way digest, injective on the model's tokens
Sum256(plain) == <<"sha256", plain.id>>

Plain(id) == [id |-> id, len |-> 26]
StoredTokens ==
    { [Hash |-> Sum256(Plain("t1")), UserID |-> "u1", Scope |-> AuthenticationScope, expired |-> FALSE],
      [Hash |-> Sum256(Plain("t2")), UserID |-> "u2", Scope |-> AuthenticationScope, expired |-> FALSE],
      [Hash |-> Sum256(Plain("t3")), UserID |-> "u3", Scope |-> AuthenticationScope, expired |-> FALSE],
      [Hash |-> Sum256(Plain("t4")), UserID |-> "u1", Scope |-> AuthenticationScope, expired |-> TRUE],
      [Hash |-> Sum256(Plain("t5")), UserID |-> "u1", Scope |-> ActivationScope, expired |-> FALSE] }

\* Authorization header values, as strings.Split(headerValue, " ") sees them;
\* <<>> is the absent header (Header.Get returns "")
AuthHeaders ==
    { <<>>, <<"Bearer">>, <<"Basic", Plain("t1")>>, <<"Bearer", Plain("t1"), Plain("t1")>>,
      <<"Bearer", [id |-> "", len |-> 0]>>, <<"Bearer", [id |-> "short", len |-> 5]>>,
      <<"Bearer", Plain("unknown")>> }
    \cup { <<"Bearer", Plain(t)>> : t \in {"t1", "t2", "t3", "t4", "t5"} }

MovieRoutes ==
    { "POST /v1/movies", "GET /v1/movies", "GET /v1/movies/:id",
      "PATCH /v1/movies/:id", "DELETE /v1/movies/:id" }
RouteSet == MovieRoutes \cup { "POST /v1/users", "POST /v1/tokens/auth", "GET /v1/unknown" }

\* what a request brings to the stages behind the rate limiter
Inputs ==
    [ route : RouteSet, auth : AuthHeaders, outcome : {"ok", "panic"}, db : {"up", "down"} ]

(***************************************************************************)
(* Credentials of the other two schemes.                                   *)
(***************************************************************************)
\* users.go: the email column, and ValidateEmail on the model's addresses
EmailOf(u) ==
    CASE u = "u1" -> "u1@example.com"
      [] u = "u2" -> "u2@example.com"
      [] u = "u3" -> "u3@example.com"
Emails == { EmailOf(u) : u \in Users } \cup { "nobody@example.com", "not-an-email" }
ValidateEmail(email) == email \notin {"", "not-an-email"}

\* a password by the user it belongs to and its length in bytes;
\* ValidatePasswordPlaintext and Password.Match (bcrypt against the stored hash)
Password(owner, len) == [owner |-> owner, len |-> len]
ValidatePasswordPlaintext(pass) == pass.len >= 8 /\ pass.len <= 72
Match(pass, u) == pass.owner = u

\* the value of a Basic header after base64 decoding, "email:password"
Basic(email, pass) == [email |-> email, pass |-> pass]
BasicHeaders ==
    { <<>>, <<"Basic">>, <<"Bearer", Plain("t1")>> }
    \cup { <<"Basic", Basic(e, Password(o, 10))>> : e \in Emails, o \in {"u1", "u2"} }
    \cup { <<"Basic", Basic(EmailOf("u1"), Password("u1", 3))>> }

\* a signed JWT as the parser sees it: whether the HS256 signature verifies
\* against JWTKEY, whether exp is in the past, and the email claim
JWT(signature, expiresAt, email) ==
    [signature |-> signature, exp |-> expiresAt, email |-> email]
JWTs == { JWT(sg, e, m) : sg \in {"valid", "invalid"}, e \in {"future", "past"},
                          m \in {EmailOf("u1"), "nobody@example.com", "not-an-email"} }
JWTHeaders ==
    { <<>>, <<"Basic">>, <<"Bearer">>, <<"Bearer", Plain("t1")>>, <<"Bearer", Plain("t1"), Plain("t1")>> }
    \cup { <<"Bearer", t>> : t \in JWTs }
    \cup { <<"Basic", JWT("valid", "future", EmailOf("u1"))>> }

\* requests for the handlers that authenticate by JWT and by Basic credentials,
\* and requests of the Bearer routes; the store is up, or it fails, or the
\* user's row is deleted after the request's token lookup found it
JWTInputs ==
    [ route : {"GET /v1/healthcheck"}, auth : JWTHeaders, outcome : {"ok"}, db : {"up"} ]
    \cup [ route : {"GET /v1/healthcheck"},
           auth : { <<"Bearer", JWT("valid", "future", EmailOf("u1"))>> },
           outcome : {"ok"}, db : {"down"} ]
BasicInputs ==
    [ route : {"POST /v1/tokens/auth", "POST /v1/tokens/jwt"}, auth : BasicHeaders,
      outcome : {"ok"}, db : {"up"} ]
    \cup [ route : {"POST /v1/tokens/auth", "POST /v1/tokens/jwt"},
           auth : { <<"Basic", Basic(EmailOf("u1"), Password("u1", 10))>> },
           outcome : {"ok"}, db : {"down"} ]
BearerInputs ==
    [ route : MovieRoutes \cup {"POST /v1/users"}, auth : AuthHeaders, outcome : {"ok"},
      db : {"up"} ]
    \cup [ route : {"GET /v1/movies", "POST /v1/movies"},
           auth : { <<"Bearer", Plain("t1")>>, <<"Bearer", Plain("t2")>> },
           outcome : {"ok"}, db : {"down", "userDeleted"} ]

(***************************************************************************)
(* The response writer and the request context of one request.            *)
(***************************************************************************)
NewCtx ==
    [ status |-> 0, body |-> <<>>, hdr |-> {}, user |-> "unset", stages |-> <<>>,
      panicked |-> FALSE, panicValue |-> "", recovered |-> FALSE, log |-> <<>>,
      handler |-> "none", wroteAt |-> 0, queries |-> <<>> ]

Enter(c, stage) == [c EXCEPT !.stages = Append(@, stage)]
Entered(c, stage) == \E i \in DOMAIN c.stages : c.stages[i] = stage

\* w.Header().Set: a header set after WriteHeader is not sent
SetHeader(c, h) == IF c.status = 0 THEN [c EXCEPT !.hdr = @ \cup {h}] ELSE c

\* helpers writeJson: Content-Type, WriteHeader(status), Write(body); wroteAt is
\* the number of stages entered when the status line went out
writeJson(c, status, data) ==
    LET c1 == SetHeader(c, "Content-Type")
    IN [c1 EXCEPT !.status = IF @ = 0 THEN status ELSE @,
                  !.wroteAt = IF c.status = 0 THEN Len(c.stages) ELSE @,
                  !.body = Append(@, data)]

errorResponse(c, status, message) == writeJson(c, status, message)

logError(c, err) == [c EXCEPT !.log = Append(@, err)]

ServerErrorMessage == "the server encountered an error to process the request"
serverErrorResponseLeaky(c, err) == errorResponse(logError(c, err), 500, err)
serverErrorResponse(c, err) == errorResponse(logError(c, err), 500, ServerErrorMessage)

notFoundResponse(c) == errorResponse(c, 404, "the requested resource couldn't be found")
rateLimitExceedResponse(c) ==
    errorResponse(c, 429, "request rate limit reached, please try again later")
invalidActivationTokenResponse(c) ==
    errorResponse(c, 401, "invalid or expired activation token")
invalidAuthenticationCredResponse(c) ==
    errorResponse(SetHeader(c, "WWW-Authenticate"), 401, "invalid authentication creds or token")
invalidJWTTokenSignatureResponse(c) ==
    errorResponse(SetHeader(c, "WWW-Authenticate"), 401, "invalid jwt token signature.")
authenticationRequiredResposne(c) ==
    errorResponse(SetHeader(c, "WWW-Authenticate"), 401, "authentication required")
unauthorizedAccessInactiveUserResponse(c) ==
    errorResponse(c, 403, "user must be activated to access this resource")
notPermittedResponse(c) ==
    errorResponse(c, 403, "your user account doesn't have the necessary permissions to access this resource")

\* a Go panic unwinding towards PanicRecovery
Panic(c, value) == [c EXCEPT !.panicked = TRUE, !.panicValue = value]

\* context.go SetUserContext / GetUserContext
SetUserContext(c, u) == [c EXCEPT !.user = u]
HasUserContext(c) == c.user # "unset"

\* users.go IsAnonymous
IsAnonymousNever(u) == FALSE
IsAnonymous(u) == u = AnonymousUser


(***************************************************************************)
(* The stages behind the rate limiter.  A stage prepares the request and   *)
(* ends either by returning or by the call next.ServeHTTP(w, r): Return    *)
(* and CallNext are those two ends.                                       *)
(***************************************************************************)
Return(c) == [c |-> c, next |-> FALSE]
CallNext(c) == [c |-> c, next |-> TRUE]

\* tokens.go ValidateTokenPlaintext: not empty and 26 bytes long
ValidateTokenPlaintext(plain) == plain.id # "" /\ plain.len = 26

\* users.go GetUserByToken: SELECT ... WHERE hash = ? (scope and expiry are not in the query)
GetUserByToken(plain, tokenScope, db) ==
    LET hash == Sum256(plain)
        rows == { t \in StoredTokens : t.Hash = hash }
    IN IF db = "down" THEN [user |-> "none", err |-> "db error"]
       ELSE IF rows = {} THEN [user |-> "none", err |-> "ErrorRecordNotFound"]
       ELSE [user |-> (CHOOSE t \in rows : TRUE).UserID, err |-> ""]

\* users.go GetByEmail: sql.ErrNoRows becomes ErrorRecordNotFound
GetByEmailAnonymous(email, db) == [user |-> AnonymousUser, err |-> ""]
GetByEmail(email, db) ==
    LET rows == { u \in Users : EmailOf(u) = email }
    IN IF db = "down" THEN [user |-> "none", err |-> "db error"]
       ELSE IF rows = {} THEN [user |-> "none", err |-> "ErrorRecordNotFound"]
       ELSE [user |-> CHOOSE u \in rows : TRUE, err |-> ""]

\* permissions.go GetAllPermsForUser and IncludesPrem; the error of a Scan that
\* finds no row is sql.ErrNoRows, which errors.Is does not match with
\* ErrorRecordNotFound, so it is returned as it is
GetAllPermsForUserCached(userID, db) ==
    IF db = "up" THEN [perms |-> Grants(userID), err |-> ""]
    ELSE [perms |-> {}, err |-> "db error"]
GetAllPermsForUser(userID, db) ==
    IF db = "down" THEN [perms |-> {}, err |-> "db error"]
    ELSE IF db = "userDeleted" THEN [perms |-> {}, err |-> "sql: no rows in result set"]
    ELSE [perms |-> grants[userID], err |-> ""]
IncludesPrem(perms, premCode) == premCode \in perms

\* the business handlers, by their outcome: a response, or a panic before any write
Handler(name, c, in) ==
    LET c0 == [Enter(c, "handler") EXCEPT !.handler = name]
    IN IF in.outcome = "panic" THEN Panic(c0, "handler panic value")
       ELSE writeJson(c0, 200, "result")

\* middleware.go:106-154
Auth(c, in) ==
    LET c0 == Enter(c, "Auth")
    IN IF in.auth = <<>> THEN CallNext(SetUserContext(c0, AnonymousUser))
       ELSE IF Len(in.auth) # 2 \/ in.auth[1] # "Bearer"
            THEN Return(invalidAuthenticationCredResponse(c0))
       ELSE IF ~ValidateTokenPlaintext(in.auth[2])
            THEN Return(invalidActivationTokenResponse(c0))
       ELSE LET res == GetUserByToken(in.auth[2], AuthenticationScope, in.db)
            IN IF res.err = "ErrorRecordNotFound"
               THEN Return(invalidAuthenticationCredResponse(c0))
               ELSE IF res.err # "" THEN Return(serverErrorResponse(c0, res.err))
               ELSE CallNext(SetUserContext(c0, res.user))

\* a query the request sends to the store
Query(c, q) == [c EXCEPT !.queries = Append(@, q)]

\* jwt.ParseWithClaims with customClaims: the token's segments are decoded, the
\* signature is verified with JWTKEY, then the registered claims and
\* customClaims.Validate are checked; the result is the error, "" for none
ParseWithClaimsNoExpiry(tok) ==
    IF "signature" \notin DOMAIN tok THEN "ErrTokenMalformed"
    ELSE IF tok.signature # "valid" THEN "ErrTokenSignatureInvalid"
    ELSE IF ~ValidateEmail(tok.email) THEN "invalid email claim on jwt token"
    ELSE ""
ParseWithClaims(tok) ==
    IF "signature" \notin DOMAIN tok THEN "ErrTokenMalformed"
    ELSE IF tok.signature # "valid" THEN "ErrTokenSignatureInvalid"
    ELSE IF tok.exp = "past" THEN "ErrTokenExpired"
    ELSE IF ~ValidateEmail(tok.email) THEN "invalid email claim on jwt token"
    ELSE ""

\* middleware.go:156-208
JWTAuth(c, in) ==
    LET c0 == Enter(c, "JWTAuth")
    IN IF in.auth = <<>> THEN CallNext(SetUserContext(c0, AnonymousUser))
       ELSE IF Len(in.auth) # 2 /\ in.auth[1] # "Bearer"
            THEN Return(invalidAuthenticationCredResponse(c0))
       ELSE IF Len(in.auth) < 2
            THEN Return(Panic(c0, "index out of range [1] with length 1"))
       ELSE LET err == ParseWithClaims(in.auth[2])
            IN IF err = "ErrTokenSignatureInvalid"
               THEN Return(invalidJWTTokenSignatureResponse(c0))
               ELSE IF err # "" THEN Return(invalidAuthenticationCredResponse(c0))
               ELSE LET c1 == Query(c0, "GetByEmail")
                        res == GetByEmail(in.auth[2].email, in.db)
                    IN IF res.err = "ErrorRecordNotFound"
                       THEN Return(invalidAuthenticationCredResponse(c1))
                       ELSE IF res.err # "" THEN Return(serverErrorResponse(c1, res.err))
                       ELSE CallNext(SetUserContext(c1, res.user))

\* authentication.go:240-297; next is the ok the function returns
BasicAuth(c, in) ==
    LET c0 == Enter(c, "BasicAuth")
        ok == Len(in.auth) = 2 /\ in.auth[1] = "Basic" /\ "email" \in DOMAIN in.auth[2]
    IN IF ~ok THEN Return(invalidAuthenticationCredResponse(c0))
       ELSE IF ~(ValidateEmail(in.auth[2].email) /\ ValidatePasswordPlaintext(in.auth[2].pass))
            THEN Return(invalidAuthenticationCredResponse(c0))
       ELSE LET c1 == Query(c0, "GetByEmail")
                res == GetByEmail(in.auth[2].email, in.db)
            IN IF res.err = "ErrorRecordNotFound"
               THEN Return(invalidActivationTokenResponse(c1))
               ELSE IF res.err # "" THEN Return(serverErrorResponse(c1, res.err))
               ELSE IF ~Match(in.auth[2].pass, res.user)
                    THEN Return(invalidAuthenticationCredResponse(c1))
               ELSE CallNext(SetUserContext(c1, res.user))

\* authentication.go:154-175 and 196-234: the two handlers that issue a token to
\* the user BasicAuth returns
createBearerTokenHandler(c, in) ==
    LET c0 == [Enter(c, "handler") EXCEPT !.handler = in.route]
        basic == BasicAuth(c0, in)
    IN IF ~basic.next THEN basic.c
       ELSE IF in.db = "down" THEN serverErrorResponse(Query(basic.c, "Tokens.New"), "db error")
       ELSE writeJson(Query(basic.c, "Tokens.New"), 201, "result")
createJWTTokenHandler(c, in) ==
    LET c0 == [Enter(c, "handler") EXCEPT !.handler = in.route]
        basic == BasicAuth(c0, in)
    IN IF ~basic.next THEN basic.c ELSE writeJson(basic.c, 200, "result")

\* middleware.go:210-219
requiredNonAnonymousUser(c) ==
    LET c0 == Enter(c, "requiredNonAnonymousUser")
    IN IF ~HasUserContext(c0)
       THEN Return(Panic(c0, "missing user value in http request context"))
       ELSE IF IsAnonymous(c0.user) THEN Return(authenticationRequiredResposne(c0))
       ELSE CallNext(c0)

\* middleware.go:223-239, the closure fn that requiredNonAnonymousUser wraps
requireActivatedUserNoReturn(c) ==
    LET c0 == Enter(c, "requireActivatedUser")
    IN IF ~Activated(c0.user) THEN CallNext(unauthorizedAccessInactiveUserResponse(c0))
       ELSE CallNext(c0)
requireActivatedUser(c) ==
    LET c0 == Enter(c, "requireActivatedUser")
    IN IF ~HasUserContext(c0)
       THEN Return(Panic(c0, "missing user value in http request context"))
       ELSE IF ~Activated(c0.user) THEN Return(unauthorizedAccessInactiveUserResponse(c0))
       ELSE CallNext(c0)

\* middleware.go:243-275
requirePermission(reqPermission, c, in) ==
    LET c0 == Enter(c, "requirePermission")
    IN IF ~HasUserContext(c0)
       THEN Return(Panic(c0, "missing user value in http request context"))
       ELSE LET res == GetAllPermsForUser(c0.user, in.db)
            IN IF res.err = "ErrorRecordNotFound" THEN Return(notPermittedResponse(c0))
               ELSE IF res.err # "" THEN Return(serverErrorResponse(c0, res.err))
               ELSE IF ~IncludesPrem(res.perms, reqPermission)
                    THEN Return(notPermittedResponse(c0))
               ELSE CallNext(c0)

\* the permission code each movie route is registered with
RoutePermissionRead(route) == "movies:read"
RoutePermission(route) ==
    IF route \in {"GET /v1/movies", "GET /v1/movies/:id"} THEN "movies:read" ELSE "movies:write"

\* routes(): the chain the router dispatches a matched request to
router(c, in) ==
    LET c0 == Enter(c, "router")
        auth == Auth(c0, in)
        anon == requiredNonAnonymousUser(auth.c)
        actv == requireActivatedUser(anon.c)
        perm == requirePermission(RoutePermission(in.route), actv.c, in)
    IN IF in.route \in MovieRoutes
       THEN IF ~auth.next THEN auth.c
            ELSE IF ~anon.next THEN anon.c
            ELSE IF ~actv.next THEN actv.c
            ELSE IF ~perm.next THEN perm.c
            ELSE Handler(in.route, perm.c, in)
       ELSE IF in.route = "POST /v1/users"
       THEN IF ~auth.next THEN auth.c ELSE Handler(in.route, auth.c, in)
       ELSE IF in.route = "POST /v1/tokens/auth" THEN createBearerTokenHandler(c0, in)
       ELSE IF in.route = "POST /v1/tokens/jwt" THEN createJWTTokenHandler(c0, in)
       ELSE IF in.route = "GET /v1/healthcheck"
       THEN LET jwt == JWTAuth(c0, in)
            IN IF ~jwt.next THEN jwt.c ELSE Handler(in.route, jwt.c, in)
       ELSE notFoundResponse(c0)

\* routes(): how deep in the chain a stage is registered
StageRank(stage) ==
    CASE stage = "PanicRecovery" -> 1
      [] stage = "enableCORS" -> 2
      [] stage = "RateLimit" -> 3
      [] stage = "router" -> 4
      [] stage = "Auth" -> 5
      [] stage = "JWTAuth" -> 5
      [] stage = "requiredNonAnonymousUser" -> 6
      [] stage = "requireActivatedUser" -> 7
      [] stage = "requirePermission" -> 8
      [] stage = "handler" -> 9
      [] stage = "BasicAuth" -> 10

\* middleware.go:36-43, the deferred function of PanicRecovery
PanicRecoveryDeferred(c) ==
    IF c.panicked
    THEN serverErrorResponse(
             [SetHeader(c, "Connection: close") EXCEPT !.panicked = FALSE, !.recovered = TRUE],
             c.panicValue)
    ELSE c

\* a request on entry to RateLimit: PanicRecovery and enableCORS have run
EnterRateLimit ==
    Enter(SetHeader(Enter(Enter(NewCtx, "PanicRecovery"), "enableCORS"),
                    "Access-Control-Allow-Origin"), "RateLimit")


(***************************************************************************)
(* The rate limiter's shared state.                                        *)
(***************************************************************************)
EntryIds == 1..env.total
GlobalBurst == BurstSize(config.globalRateLimit)
PerClientBurst == BurstSize(config.perClientRateLimit)

\* an entry id is live while the map, its goroutine or a waiting goroutine refers to it
Live(id, mapf, expf) ==
    \/ \E a \in Addrs : mapf[a] = id
    \/ expf[id].pc # "none"
    \/ \E j \in EntryIds : expf[j].pc # "none" /\ expf[j].waitOn = id
FreshId == CHOOSE id \in EntryIds :
               /\ ~Live(id, pcnRL, exp)
               /\ \A j \in EntryIds : j < id => Live(j, pcnRL, exp)

\* objects nothing refers to are collected: a bucket that left the map is
\* unreachable, its timer is reachable while a goroutine waits on its channel
Collect(entf, mapf, expf) ==
    [id \in EntryIds |->
        IF \E a \in Addrs : mapf[a] = id THEN entf[id]
        ELSE IF \E j \in EntryIds : expf[j].pc # "none" /\ expf[j].waitOn = id
        THEN [entf[id] EXCEPT !.tokens = 0]
        ELSE NoEntry]

\* goroutines that are in the middle of a write to the map
Inserting == { r \in BagToSet(req) : r.pc = "inserting" }
Deleting == { id \in EntryIds : exp[id].pc = "locked" }
MapWriters == BagCardinality([r \in Inserting |-> req[r]]) + Cardinality(Deleting)
WriteInProgress == MapWriters > 0

\* one request of the bag moves on, enters or leaves
Move(r, r2) == (req (-) SetToBag({r})) (+) SetToBag({r2})
Leave(r) == req (-) SetToBag({r})
At(r, pc) == [r EXCEPT !.pc = pc]

\* what is left of a request when its handler has returned
Finish(c, addr, path, in, held) ==
    [ c |-> PanicRecoveryDeferred(c), addr |-> addr, path |-> path, in |-> in, held |-> held ]
NoInput == [route |-> "none", auth |-> <<>>, outcome |-> "none", db |-> "none"]
NoExchange == [ c |-> NewCtx, addr |-> "none", path |-> "none", in |-> NoInput, held |-> 0 ]


\* the process ends ("fatal error: concurrent map ..." or a panic no goroutine
\* recovers): its memory is gone, the counters of the clients' side stay
FatalError ==
    /\ crashed' = TRUE
    /\ pcnRL' = [a \in Addrs |-> 0]
    /\ ent' = [id \in EntryIds |-> NoEntry]
    /\ exp' = [id \in EntryIds |-> NoTask]
    /\ mu' = [readers |-> 0, writer |-> 0]
    /\ req' = EmptyBag
    /\ last' = NoExchange
    /\ leaked' = [a \in Addrs |-> NoneLeaked]
    /\ UNCHANGED <<jobVars, dataVars, sideVars, grants, config, env, nRL, started, passed, refills>>

\* rate.Limiter.Allow on a bucket, and net.SplitHostPort on r.RemoteAddr
AllowAlways(tokens) == TRUE
Allow(tokens) == tokens > 0
SplitHostPortAny(addr) == TRUE
SplitHostPort(addr) == addr # Malformed

\* sync.RWMutex
RLockOpen(m) == m.writer = 0
RLockAcquire(m) == [m EXCEPT !.readers = @ + 1]
RUnlock(m) == [m EXCEPT !.readers = @ - 1]

(***************************************************************************)
(* Initial states: the server after routes() built the chain.  The loads   *)
(* differ in what the clients send, not in the program.                    *)
(***************************************************************************)
RateLimitConfig(enabled, rate) ==
    [ enabled |-> enabled, globalRateLimit |-> rate, perClientRateLimit |-> 1 ]

ServedInput == [route |-> "GET /v1/movies", auth |-> <<"Bearer", Plain("t1")>>,
                outcome |-> "ok", db |-> "up"]
FewInputs == { ServedInput, [ServedInput EXCEPT !.outcome = "panic"] }

\* no registration was handled, no signal was received
JobsIdle ==
    /\ wg = 0
    /\ jobs = EmptyBag
    /\ regs = EmptyBag
    /\ mainPc = "listen"
    /\ gsPc = "quit"
    /\ jobLog = [dispatched |-> 0, ended |-> 0, panics |-> 0, deadline |-> FALSE]

\* the tokens of the fixture as their issuing calls returned them
IssuedBefore ==
    { [ PlainText |-> Plain(row.Hash[2]), Hash |-> row.Hash, UserID |-> row.UserID,
        Scope |-> row.Scope, expired |-> row.expired ] : row \in StoredTokens }

\* the store as the fixture describes it
DataInitial ==
    /\ users = {}
    /\ tokenRows = StoredTokens
    /\ issued = IssuedBefore

\* an answer of userActivationHandler: the stage that wrote it, whether the
\* token matched a stored one and whether that one had expired, whether
\* Users.Update found the version moved on
NoActivation ==
    [user |-> "none", status |-> 0, stage |-> "none", matched |-> FALSE, expired |-> FALSE,
     stale |-> FALSE]
NoRegistration ==
    [user |-> "none", status |-> 0, cause |-> "none", inserted |-> FALSE, n |-> 0]
NoUpdate ==
    [id |-> 0, version |-> 0, stored |-> 0, after |-> 0, changed |-> FALSE, status |-> 0,
     written |-> 0]
\* a string by its bytes: unit bytes named head, written reps times with a
\* NUL byte between two copies, and tail, the bytes after the 72nd of a unit
\* longer than 72 bytes; NilString is the nil *string
Text(head, unit, reps, tail) == [head |-> head, unit |-> unit, reps |-> reps, tail |-> tail]
NilString == Text("nil", 0, 1, "")
NoHash == [cost |-> 0, salt |-> "", key |-> [head |-> "", len |-> 0]]
\* Password{}
EmptyPassword == [Plaintext |-> NilString, Hash |-> NoHash]
NoPassword ==
    [call |-> "none", p |-> EmptyPassword, arg |-> NilString, ok |-> FALSE, err |-> "nil",
     from |-> NilString]

\* no activation and no movie update was handled, no Password call was made
SideIdle ==
    /\ acts = EmptyBag
    /\ lastAct = NoActivation
    /\ ok200 = EmptyBag
    /\ movies = <<>>
    /\ upds = EmptyBag
    /\ lastUpd = NoUpdate
    /\ pw = NoPassword
    /\ updLog = EmptyBag
    /\ lastReg = NoRegistration

\* the limiters and the pipeline before the first request
RateLimitIdle(cfgs, load) ==
    /\ config \in cfgs
    /\ env = load
    /\ nRL = BurstSize(config.globalRateLimit)
    /\ pcnRL = [a \in Addrs |-> 0]
    /\ ent = [id \in EntryIds |-> NoEntry]
    /\ exp = [id \in EntryIds |-> NoTask]
    /\ mu = [readers |-> 0, writer |-> 0]
    /\ req = EmptyBag
    /\ last = NoExchange
    /\ started = 0
    /\ crashed = FALSE
    /\ passed = 0
    /\ refills = 0
    /\ leaked = [a \in Addrs |-> NoneLeaked]

InitWith(cfgs, load) ==
    /\ JobsIdle
    /\ DataInitial
    /\ SideIdle
    /\ RateLimitIdle(cfgs, load)
    /\ grants = [u \in Users |-> Grants(u)]

\* concurrent connections with one request each, or one connection sending
\* its requests one after the other; rate limiting on or off
Loads ==
    { [conc |-> MaxInFlight, total |-> MaxInFlight, addrs |-> RemoteAddrs, inputs |-> FewInputs],
      [conc |-> 1, total |-> MaxRequests, addrs |-> RemoteAddrs, inputs |-> FewInputs] }
Init ==
    \E load \in Loads :
        InitWith({ RateLimitConfig(e, MaxRate) : e \in BOOLEAN }, load)

\* one connection that sends every kind of request
InitPipeline ==
    InitWith({ RateLimitConfig(TRUE, MaxRate) },
             [conc |-> 1, total |-> MaxInFlight, addrs |-> {"A"}, inputs |-> Inputs])

\* one connection that sends more requests than the global burst of a rate
\* whose tenth is not zero
InitSaturation ==
    InitWith({ RateLimitConfig(TRUE, SatRate) },
             [conc |-> 1, total |-> BurstSize(SatRate) + 1 + SatExtra,
              addrs |-> {"A", Malformed}, inputs |-> FewInputs])

\* rate limiting disabled: one connection that sends requests of every
\* authentication scheme while rows of user_permissions are deleted
InitAuth ==
    InitWith({ RateLimitConfig(FALSE, MaxRate) },
             [conc |-> 1, total |-> MaxRequests, addrs |-> {"A"},
              inputs |-> JWTInputs \cup BasicInputs \cup BearerInputs])

(***************************************************************************)
(* RateLimit, the handler of one request (middleware.go:59-98).  last is   *)
(* the exchange completed by the step just taken, NoExchange otherwise.    *)
(***************************************************************************)

\* PanicRecovery and enableCORS call next; then middleware.go:60-68, or the
\* pass-through of :100-102 when rate limiting is disabled
Arrive ==
    /\ ~crashed
    /\ BagCardinality(req) < env.conc
    /\ started < env.total
    /\ started' = started + 1
    /\ \E addr \in env.addrs :
        IF ~config.enabled
        THEN /\ \E in \in env.inputs :
                  last' = Finish(router(EnterRateLimit, in), addr, "served", in, 0)
             /\ UNCHANGED <<nRL, req, passed>>
        ELSE IF ~Allow(nRL)
        THEN /\ last' = Finish(rateLimitExceedResponse(EnterRateLimit), addr,
                               "global", NoInput, 0)
             /\ UNCHANGED <<nRL, req, passed>>
        ELSE /\ nRL' = nRL - 1
             /\ passed' = IF refills > 0 THEN 0 ELSE passed + 1
             /\ IF ~SplitHostPort(addr)
                THEN /\ last' = Finish(serverErrorResponse(EnterRateLimit,
                                                           "missing port in address"),
                                       addr, "address", NoInput, 0)
                     /\ UNCHANGED req
                ELSE /\ req' = req (+) SetToBag({[pc |-> "rlock", addr |-> addr, held |-> 0]})
                     /\ last' = NoExchange
    /\ UNCHANGED <<jobVars, dataVars, sideVars, grants, config, env, pcnRL, ent, exp, mu, crashed, refills, leaked>>

\* middleware.go:69-70: mu.RLock(), then the lookup pcnRL[clientAddr]
RLockLookup(r) ==
    /\ ~crashed
    /\ r.pc = "rlock"
    /\ RLockOpen(mu)
    /\ \/ /\ mu' = RLockAcquire(mu)
          /\ req' = Move(r, [r EXCEPT !.held = @ + 1,
                                      !.pc = IF pcnRL[r.addr] = 0 THEN "insert" ELSE "renew"])
          /\ last' = NoExchange
          /\ UNCHANGED <<jobVars, dataVars, sideVars, grants, config, env, nRL, pcnRL, ent, exp, started, crashed, passed, refills, leaked>>
       \/ /\ WriteInProgress
          /\ FatalError

\* middleware.go:72: the assignment pcnRL[clientAddr] = ... begins, under the read lock
InsertBegin(r) ==
    /\ ~crashed
    /\ r.pc = "insert"
    /\ \/ /\ req' = Move(r, At(r, "inserting"))
          /\ last' = NoExchange
          /\ UNCHANGED <<jobVars, dataVars, sideVars, grants, config, env, nRL, pcnRL, ent, exp, mu, started, crashed,
                         passed, refills, leaked>>
       \/ /\ WriteInProgress
          /\ FatalError

\* middleware.go:72-83: the assignment completes, mu.RUnlock(), go func()
InsertEnd(r) ==
    /\ ~crashed
    /\ r.pc = "inserting"
    /\ LET id == FreshId
           map1 == [pcnRL EXCEPT ![r.addr] = id]
           exp1 == [exp EXCEPT ![id] = [pc |-> "start", addr |-> r.addr, waitOn |-> 0]]
           ent1 == [ent EXCEPT ![id] = [tokens |-> PerClientBurst, timer |-> NewTimer]]
       IN /\ pcnRL' = map1
          /\ exp' = exp1
          /\ ent' = Collect(ent1, map1, exp1)
    /\ mu' = RUnlock(mu)
    /\ req' = Move(r, [r EXCEPT !.held = @ - 1, !.pc = "rlock2"])
    /\ last' = NoExchange
    /\ UNCHANGED <<jobVars, dataVars, sideVars, grants, config, env, nRL, started, crashed, passed, refills, leaked>>

\* middleware.go:85-88: the else branch releases nothing, the read lock of line 69 stays
HeldAfterRenewUnlocked(held) == held - 1
HeldAfterRenew(held) == held

\* Timer.Reset: the timer runs again; a value already in C stays there or is
\* dropped, by the Go runtime the binary was built with
Reset(keeps) == [running |-> "reset", full |-> keeps]

\* middleware.go:86-87: pcnRL[clientAddr].LastAccess.Reset(expirationTime)
Renew(r) ==
    /\ ~crashed
    /\ r.pc = "renew"
    /\ \/ /\ pcnRL[r.addr] # 0
          /\ \E keeps \in {FALSE, ent[pcnRL[r.addr]].timer.full} :
               ent' = [ent EXCEPT ![pcnRL[r.addr]].timer = Reset(keeps)]
          /\ mu' = [mu EXCEPT !.readers = @ - (r.held - HeldAfterRenew(r.held))]
          /\ req' = Move(r, [r EXCEPT !.pc = "rlock2", !.held = HeldAfterRenew(@)])
          /\ last' = NoExchange
          /\ UNCHANGED <<jobVars, dataVars, sideVars, grants, config, env, nRL, pcnRL, exp, started, crashed, passed, refills, leaked>>
       \/ /\ WriteInProgress
          /\ FatalError

\* middleware.go:90-97: mu.RLock(), pcnRL[clientAddr].Limit.Allow(), mu.RUnlock(),
\* next.ServeHTTP(w, r): the router and the stages behind it touch no shared state
PerClient(r) ==
    /\ ~crashed
    /\ r.pc = "rlock2"
    /\ RLockOpen(mu)
    /\ \/ /\ LET id == pcnRL[r.addr]
             IN IF id = 0
                THEN \* the zero ClientRateLimiter: Allow on a nil *rate.Limiter panics
                     /\ mu' = RLockAcquire(mu)
                     /\ last' = Finish(Panic(EnterRateLimit, "nil pointer dereference"),
                                       r.addr, "client", NoInput, r.held + 1)
                     /\ leaked' = [leaked EXCEPT ![r.addr].other = @ + r.held + 1]
                     /\ UNCHANGED ent
                ELSE IF ~Allow(ent[id].tokens)
                THEN /\ mu' = RLockAcquire(mu)
                     /\ last' = Finish(rateLimitExceedResponse(EnterRateLimit),
                                       r.addr, "client", NoInput, r.held + 1)
                     /\ leaked' = [leaked EXCEPT ![r.addr].rejected = @ + r.held + 1]
                     /\ UNCHANGED ent
                ELSE /\ ent' = [ent EXCEPT ![id].tokens = @ - 1]
                     /\ mu' = RUnlock(RLockAcquire(mu))
                     /\ \E in \in env.inputs :
                          last' = Finish(router(EnterRateLimit, in), r.addr,
                                         "served", in, r.held)
                     /\ leaked' = [leaked EXCEPT ![r.addr].other = @ + r.held]
          /\ req' = Leave(r)
          /\ UNCHANGED <<jobVars, dataVars, sideVars, grants, config, env, nRL, pcnRL, exp, started, crashed, passed, refills>>
       \/ /\ WriteInProgress
          /\ FatalError

(***************************************************************************)
(* The expiry goroutine of an entry (middleware.go:78-83) and its timer.   *)
(***************************************************************************)

\* time.Timer: the runtime sends on LastAccess.C when the duration has elapsed
TimerFire(id) ==
    /\ ~crashed
    /\ ent[id].timer.running # "no"
    /\ ent' = [ent EXCEPT ![id].timer = [running |-> "no", full |-> TRUE]]
    /\ last' = NoExchange
    /\ UNCHANGED <<jobVars, dataVars, sideVars, grants, config, env, nRL, pcnRL, exp, mu, req, started, crashed, passed, refills, leaked>>

\* middleware.go:79: the goroutine evaluates pcnRL[clientAddr].LastAccess.C, no lock held
ExpiryStart(id) ==
    /\ ~crashed
    /\ exp[id].pc = "start"
    /\ \/ IF pcnRL[exp[id].addr] = 0
          THEN \* LastAccess is nil: the panic is not recovered in this goroutine
               FatalError
          ELSE /\ exp' = [exp EXCEPT ![id].pc = "wait", ![id].waitOn = pcnRL[exp[id].addr]]
               /\ last' = NoExchange
               /\ UNCHANGED <<jobVars, dataVars, sideVars, grants, config, env, nRL, pcnRL, ent, mu, req, started,
                              crashed, passed, refills, leaked>>
       \/ /\ WriteInProgress
          /\ FatalError

\* middleware.go:79: the receive <-C returns
ExpiryReceive(id) ==
    /\ ~crashed
    /\ exp[id].pc = "wait"
    /\ ent[exp[id].waitOn].timer.full
    /\ LET exp1 == [exp EXCEPT ![id].pc = "lock", ![id].waitOn = 0]
           ent1 == [ent EXCEPT ![exp[id].waitOn].timer.full = FALSE]
       IN /\ exp' = exp1
          /\ ent' = Collect(ent1, pcnRL, exp1)
    /\ last' = NoExchange
    /\ UNCHANGED <<jobVars, dataVars, sideVars, grants, config, env, nRL, pcnRL, mu, req, started, crashed, passed, refills, leaked>>

\* middleware.go:80: mu.Lock() announces the writer; RLock calls made from now on wait
ExpiryLock(id) ==
    /\ ~crashed
    /\ exp[id].pc = "lock"
    /\ mu.writer = 0
    /\ mu' = [mu EXCEPT !.writer = id]
    /\ exp' = [exp EXCEPT ![id].pc = "locking"]
    /\ last' = NoExchange
    /\ UNCHANGED <<jobVars, dataVars, sideVars, grants, config, env, nRL, pcnRL, ent, req, started, crashed, passed, refills, leaked>>

\* middleware.go:80-81: mu.Lock() returns when the readers have left; delete begins
ExpiryAcquire(id) ==
    /\ ~crashed
    /\ exp[id].pc = "locking"
    /\ mu.readers = 0
    /\ exp' = [exp EXCEPT ![id].pc = "locked"]
    /\ last' = NoExchange
    /\ UNCHANGED <<jobVars, dataVars, sideVars, grants, config, env, nRL, pcnRL, ent, mu, req, started, crashed, passed, refills, leaked>>

\* middleware.go:81-82: delete(pcnRL, clientAddr) completes, mu.Unlock()
ExpiryDeleteUnlock(id) ==
    /\ ~crashed
    /\ exp[id].pc = "locked"
    /\ LET map1 == [pcnRL EXCEPT ![exp[id].addr] = 0]
           exp1 == [exp EXCEPT ![id] = NoTask]
       IN /\ pcnRL' = map1
          /\ exp' = exp1
          /\ ent' = Collect(ent, map1, exp1)
    /\ mu' = [mu EXCEPT !.writer = 0]
    /\ last' = NoExchange
    /\ UNCHANGED <<jobVars, dataVars, sideVars, grants, config, env, nRL, req, started, crashed, passed, refills, leaked>>

(***************************************************************************)
(* rate.Limiter: time refills a bucket up to its burst.                    *)
(***************************************************************************)
RefillGlobal ==
    /\ ~crashed
    /\ config.enabled
    /\ config.globalRateLimit > 0
    /\ nRL < GlobalBurst
    /\ nRL' = nRL + 1
    /\ refills < MaxRefills
    /\ refills' = refills + 1
    /\ passed' = 0
    /\ last' = NoExchange
    /\ UNCHANGED <<jobVars, dataVars, sideVars, grants, config, env, pcnRL, ent, exp, mu, req, started, crashed, leaked>>

RefillClient(a) ==
    /\ ~crashed
    /\ config.perClientRateLimit > 0
    /\ pcnRL[a] # 0
    /\ ent[pcnRL[a]].tokens < PerClientBurst
    /\ ent' = [ent EXCEPT ![pcnRL[a]].tokens = @ + 1]
    /\ last' = NoExchange
    /\ UNCHANGED <<jobVars, dataVars, sideVars, grants, config, env, nRL, pcnRL, exp, mu, req, started, crashed, passed, refills, leaked>>

\* a row of user_permissions is deleted in the store: the grant is revoked
RevokeGrant ==
    /\ ~crashed
    /\ \E u \in Users : \E code \in grants[u] :
          grants' = [grants EXCEPT ![u] = @ \ {code}]
    /\ last' = NoExchange
    /\ UNCHANGED <<jobVars, dataVars, sideVars, config, env, nRL, pcnRL, ent, exp, mu, req, started,
                   crashed, passed, refills, leaked>>

Next ==
    \/ Arrive
    \/ \E r \in BagToSet(req) : RLockLookup(r)
    \/ \E r \in BagToSet(req) : InsertBegin(r)
    \/ \E r \in BagToSet(req) : InsertEnd(r)
    \/ \E r \in BagToSet(req) : Renew(r)
    \/ \E r \in BagToSet(req) : PerClient(r)
    \/ \E id \in EntryIds : TimerFire(id)
    \/ \E id \in EntryIds : ExpiryStart(id)
    \/ \E id \in EntryIds : ExpiryReceive(id)
    \/ \E id \in EntryIds : ExpiryLock(id)
    \/ \E id \in EntryIds : ExpiryAcquire(id)
    \/ \E id \in EntryIds : ExpiryDeleteUnlock(id)
    \/ RefillGlobal
    \/ \E a \in Addrs : RefillClient(a)

Spec == Init /\ [][Next]_vars
SpecPipeline == InitPipeline /\ [][Next]_vars
SpecSaturation == InitSaturation /\ [][Next]_vars

\* the scheduler runs every handler and every expiry goroutine that can take
\* a step; sync.RWMutex hands the lock to a caller that can have it
RequestStep ==
    \E r \in BagToSet(req) :
        RLockLookup(r) \/ InsertBegin(r) \/ InsertEnd(r) \/ Renew(r) \/ PerClient(r)
ExpiryStep ==
    \E id \in EntryIds :
        ExpiryStart(id) \/ ExpiryReceive(id) \/ ExpiryLock(id) \/ ExpiryAcquire(id)
            \/ ExpiryDeleteUnlock(id)
SpecLive == Init /\ [][Next]_vars /\ WF_vars(RequestStep) /\ WF_vars(ExpiryStep)

\* the requests of one connection and the revocations of the store
NextAuth ==
    \/ Arrive
    \/ RevokeGrant
SpecAuth == InitAuth /\ [][NextAuth]_vars


(***************************************************************************)
(* Registration, the background job that mails the activation token, and   *)
(* the shutdown sequence (users.go:86-113, helpers BackgroundJob,          *)
(* main.go Api and gracefulShutdown).                                      *)
(***************************************************************************)

rateLimitVars == <<config, env, nRL, pcnRL, ent, exp, mu, req, last, started, passed,
                   refills, leaked>>

\* the attempts of the retry loop, users.go: for i := 0; i < 3; i++
Attempts == 3

\* sync.WaitGroup: Add(1), Done(), and when Wait() returns
WgAdd(n) == n + 1
WgDoneTwice(n) == n - 2
WgDone(n) == n - 1
WaitReturnsAlways(n) == TRUE
WaitReturns(n) == n = 0

\* recover() in the deferred function of the job: true when it stops a panic
recoverNil(panicErr) == FALSE
recover(panicErr) == panicErr # "none"

\* the condition of the retry loop
LoopForever(i) == TRUE
LoopContinues(i) == i < Attempts

\* ids the store generates for new users (gen_random_uuid), in order of insertion
NewUserSeq == <<"n1", "n2", "n3", "n4">>
\* plaintexts rand.Read and base32 may produce for a new token
NewTokenSeq == <<"r1", "r2", "r3", "r4">>
RandomTokens == { Plain(NewTokenSeq[k]) : k \in 1..MaxTokens }

\* rand.Read: 16 random bytes do not repeat a plaintext issued before; which
\* of the values not yet issued comes next makes no difference, so it is the
\* first of NewTokenSeq
Fresh(plain) == \A t \in issued : t.PlainText # plain
FreshTokens ==
    { Plain(NewTokenSeq[k]) : k \in { i \in 1..MaxTokens :
          /\ Fresh(Plain(NewTokenSeq[i]))
          /\ \A j \in 1..(i - 1) : ~Fresh(Plain(NewTokenSeq[j])) } }

\* tokens.go generateToken: the Token with its plaintext and hash, and
\* InsertToken: the row bun writes, without the PlainText field (bun:"-")
generateToken(userID, scope, plain) ==
    [ PlainText |-> plain, Hash |-> Sum256(plain), UserID |-> userID, Scope |-> scope,
      expired |-> FALSE ]
InsertTokenWithPlainText(t) == t
InsertToken(t) ==
    [ Hash |-> t.Hash, UserID |-> t.UserID, Scope |-> t.Scope, expired |-> t.expired ]

\* the goroutine BackgroundJob starts for a registration
NewJob(user) ==
    [ pc |-> "new", user |-> user, i |-> 0, sends |-> 0, fails |-> 0, sleeps |-> 0,
      ok |-> FALSE, panicErr |-> "none", tokenErr |-> "nil" ]

\* the process runs: no fatal error, and Api() has not returned
Running == ~crashed /\ mainPc # "returned"

\* the request context of a handler that returned is cancelled
Cancelled(user) == \A r \in BagToSet(regs) : r.user # user

\* registerUserHandler up to AddPermForUser: the user row is inserted, not
\* activated, and movies:read is granted
RegisterBegin ==
    /\ Running
    /\ mainPc = "listen"
    /\ Cardinality(users) < MaxJobs
    /\ LET id == NewUserSeq[Cardinality(users) + 1]
       IN /\ users' = users \cup {[ID |-> id, Activated |-> FALSE, Version |-> 1]}
          /\ grants' = [u \in DOMAIN grants \cup {id} |->
                           IF u = id THEN {"movies:read"} ELSE grants[u]]
          /\ regs' = regs (+) SetToBag({[pc |-> "dispatch", user |-> id]})
    /\ UNCHANGED <<rateLimitVars, sideVars, crashed, wg, jobs, mainPc, gsPc, jobLog, tokenRows, issued>>

\* app.BackgroundJob: wg.Add(1), then go func()
RegisterDispatch(r) ==
    /\ Running
    /\ r.pc = "dispatch"
    /\ wg' = WgAdd(wg)
    /\ jobs' = jobs (+) SetToBag({NewJob(r.user)})
    /\ jobLog' = [jobLog EXCEPT !.dispatched = @ + 1]
    /\ regs' = (regs (-) SetToBag({r})) (+) SetToBag({[r EXCEPT !.pc = "respond"]})
    /\ UNCHANGED <<rateLimitVars, sideVars, crashed, grants, mainPc, gsPc, dataVars>>

\* the handler writes 202 and returns
RegisterRespond(r) ==
    /\ Running
    /\ r.pc = "respond"
    /\ regs' = regs (-) SetToBag({r})
    /\ UNCHANGED <<rateLimitVars, sideVars, crashed, grants, wg, jobs, mainPc, gsPc, jobLog, dataVars>>

\* the error of a statement run with the context of the request of user: the
\* context's own error once it has ended, the store's error otherwise
ContextErr(user) == IF Cancelled(user) THEN "context canceled" ELSE "db"

\* the job: Tokens.New(ctx, 72h, nUser.ID, ActivationScope) with the context
\* of the request; on an error the job logs and returns
JobTokenNew(j) ==
    /\ Running
    /\ j.pc = "new"
    /\ \/ /\ ~Cancelled(j.user)
          /\ \E plain \in FreshTokens :
                LET t == generateToken(j.user, ActivationScope, plain)
                IN /\ Fresh(plain)
                   /\ \A row \in tokenRows : row.Hash # t.Hash
                   /\ tokenRows' = tokenRows \cup {InsertToken(t)}
                   /\ issued' = issued \cup {t}
          /\ jobs' = (jobs (-) SetToBag({j})) (+) SetToBag({[j EXCEPT !.pc = "send"]})
          /\ UNCHANGED users
       \/ /\ jobs' = (jobs (-) SetToBag({j})) (+)
                      SetToBag({[j EXCEPT !.pc = "ret", !.tokenErr = ContextErr(j.user)]})
          /\ UNCHANGED dataVars
    /\ UNCHANGED <<rateLimitVars, sideVars, crashed, grants, wg, regs, mainPc, gsPc, jobLog>>

\* one pass of the loop: app.mailer.Send succeeds, fails, or panics
JobSend(j) ==
    /\ Running
    /\ j.pc = "send"
    /\ \E outcome \in {"sent", "error", "panic"} :
          LET j1 == [j EXCEPT !.sends = @ + 1]
              j2 == IF outcome = "sent" THEN [j1 EXCEPT !.ok = TRUE, !.pc = "ret"]
                    ELSE IF outcome = "error" THEN [j1 EXCEPT !.fails = @ + 1, !.pc = "sleep"]
                    ELSE [j1 EXCEPT !.panicErr = "mailer panic", !.pc = "panic"]
          IN /\ jobs' = (jobs (-) SetToBag({j})) (+) SetToBag({j2})
             /\ jobLog' = [jobLog EXCEPT !.panics = IF outcome = "panic" THEN @ + 1 ELSE @]
    /\ UNCHANGED <<rateLimitVars, sideVars, crashed, grants, wg, regs, mainPc, gsPc, dataVars>>

\* time.Sleep(500 * time.Millisecond), i++ and the test of the loop
JobSleep(j) ==
    /\ Running
    /\ j.pc = "sleep"
    /\ jobs' = (jobs (-) SetToBag({j})) (+)
                SetToBag({[j EXCEPT !.sleeps = @ + 1, !.i = @ + 1,
                                    !.pc = IF LoopContinues(j.i + 1) THEN "send" ELSE "ret"]})
    /\ UNCHANGED <<rateLimitVars, sideVars, crashed, grants, wg, regs, mainPc, gsPc, jobLog, dataVars>>

\* the deferred function with recover(): the panic is logged and stops here;
\* a panic no function recovers ends the process
JobRecover(j) ==
    /\ Running
    /\ j.pc = "panic"
    /\ IF recover(j.panicErr)
       THEN /\ jobs' = (jobs (-) SetToBag({j})) (+) SetToBag({[j EXCEPT !.pc = "ret"]})
            /\ UNCHANGED crashed
       ELSE /\ crashed' = TRUE
            /\ UNCHANGED jobs
    /\ UNCHANGED <<rateLimitVars, sideVars, grants, wg, regs, mainPc, gsPc, jobLog, dataVars>>

\* defer app.wg.Done(): the last thing the goroutine does
JobDone(j) ==
    /\ Running
    /\ j.pc = "ret"
    /\ wg' = WgDone(wg)
    /\ jobs' = jobs (-) SetToBag({j})
    /\ jobLog' = [jobLog EXCEPT !.ended = @ + 1]
    /\ UNCHANGED <<rateLimitVars, sideVars, crashed, grants, regs, mainPc, gsPc, dataVars>>

\* gracefulShutdown: s := <-quit, one of SIGINT, SIGTERM, SIGQUIT arrived
Signal ==
    /\ Running
    /\ gsPc = "quit"
    /\ gsPc' = "shutdown"
    /\ UNCHANGED <<rateLimitVars, sideVars, crashed, grants, wg, jobs, regs, mainPc, jobLog, dataVars>>

\* srv.Shutdown(ctx) closes the listeners: ListenAndServe returns in Api()
ShutdownCall ==
    /\ Running
    /\ gsPc = "shutdown"
    /\ gsPc' = "draining"
    /\ mainPc' = "recv"
    /\ UNCHANGED <<rateLimitVars, sideVars, crashed, grants, wg, jobs, regs, jobLog, dataVars>>

\* srv.Shutdown returns nil once no handler is running
ShutdownDone ==
    /\ Running
    /\ gsPc = "draining"
    /\ regs = EmptyBag
    /\ gsPc' = "wait"
    /\ UNCHANGED <<rateLimitVars, sideVars, crashed, grants, wg, jobs, regs, mainPc, jobLog, dataVars>>

\* srv.Shutdown returns the context's error: 20s passed and a handler still
\* runs; the goroutine goes on to shutdownErr <- err
ShutdownDeadline ==
    /\ Running
    /\ gsPc = "draining"
    /\ regs # EmptyBag
    /\ gsPc' = "senderr"
    /\ jobLog' = [jobLog EXCEPT !.deadline = TRUE]
    /\ UNCHANGED <<rateLimitVars, sideVars, crashed, grants, wg, jobs, regs, mainPc, dataVars>>

\* app.wg.Wait() returns; the goroutine goes on to shutdownErr <- nil
WgWait ==
    /\ Running
    /\ gsPc = "wait"
    /\ WaitReturns(wg)
    /\ gsPc' = "sendnil"
    /\ UNCHANGED <<rateLimitVars, sideVars, crashed, grants, wg, jobs, regs, mainPc, jobLog, dataVars>>

\* err = <-shutdownErr in Api(): the unbuffered channel hands over the value,
\* Api() returns and the process ends
ApiReturn ==
    /\ Running
    /\ mainPc = "recv"
    /\ gsPc \in {"senderr", "sendnil"}
    /\ mainPc' = "returned"
    /\ gsPc' = IF gsPc = "senderr" THEN "wait" ELSE "end"
    /\ UNCHANGED <<rateLimitVars, sideVars, crashed, grants, wg, jobs, regs, jobLog, dataVars>>

InitJobs ==
    InitWith({ RateLimitConfig(FALSE, MaxRate) },
             [conc |-> 1, total |-> 0, addrs |-> {"A"}, inputs |-> FewInputs])

JobStep ==
    \E j \in BagToSet(jobs) :
        JobTokenNew(j) \/ JobSend(j) \/ JobSleep(j) \/ JobRecover(j) \/ JobDone(j)
HandlerStep ==
    \E r \in BagToSet(regs) : RegisterDispatch(r) \/ RegisterRespond(r)
ShutdownStep ==
    ShutdownCall \/ ShutdownDone \/ ShutdownDeadline \/ WgWait \/ ApiReturn

NextJobs ==
    \/ RegisterBegin
    \/ \E r \in BagToSet(regs) : RegisterDispatch(r)
    \/ \E r \in BagToSet(regs) : RegisterRespond(r)
    \/ \E j \in BagToSet(jobs) : JobTokenNew(j)
    \/ \E j \in BagToSet(jobs) : JobSend(j)
    \/ \E j \in BagToSet(jobs) : JobSleep(j)
    \/ \E j \in BagToSet(jobs) : JobRecover(j)
    \/ \E j \in BagToSet(jobs) : JobDone(j)
    \/ Signal
    \/ ShutdownCall
    \/ ShutdownDone
    \/ ShutdownDeadline
    \/ WgWait
    \/ ApiReturn
SpecJobs == InitJobs /\ [][NextJobs]_vars

\* the scheduler runs every goroutine that can take a step, and every call
\* of the job and of the handler returns
SpecJobsLive ==
    /\ InitJobs
    /\ [][NextJobs]_vars
    /\ WF_vars(JobStep)
    /\ WF_vars(HandlerStep)
    /\ WF_vars(ShutdownStep)


(***************************************************************************)
(* The tokens of the store: issuing, matching, expiry, and the activation  *)
(* of a user (data/tokens.go, api/tokens.go userActivationHandler).        *)
(***************************************************************************)

NoToken == [Hash |-> <<"nil", "nil">>, UserID |-> "none", Scope |-> "none", expired |-> FALSE]

\* tokens.go GetTokensOfUserID: WHERE user_id = ? AND scope = ?
GetTokensOfUserID(userID, tokenScope) ==
    { row \in tokenRows : row.UserID = userID /\ row.Scope = tokenScope }

\* tokens.go Tokens.Match: the token of the collection with the hash of the
\* plaintext, or nil and false
TokensMatchAny(rows, plain) ==
    IF rows = {} THEN [token |-> NoToken, ok |-> FALSE]
    ELSE [token |-> CHOOSE row \in rows : TRUE, ok |-> TRUE]
TokensMatch(rows, plain) ==
    LET matched == { row \in rows : row.Hash = Sum256(plain) }
    IN IF matched = {} THEN [token |-> NoToken, ok |-> FALSE]
       ELSE [token |-> CHOOSE row \in matched : TRUE, ok |-> TRUE]

\* tokens.go DeleteAllForUser: DELETE ... WHERE user_id = ? AND scope = ?
DeleteAllForUserNone(rows, userID, scope) == rows
DeleteAllForUser(rows, userID, scope) ==
    { row \in rows : ~(row.UserID = userID /\ row.Scope = scope) }

\* the users that ask for a bearer token while tokens are activated
BearerUsers == {"u1"}

\* createBearerTokenHandler after BasicAuth returned a user:
\* Tokens.New(ctx, 24h, nUser.ID, AuthenticationScope)
CreateBearerToken ==
    /\ Running
    /\ \E u \in BearerUsers : \E plain \in FreshTokens :
          LET t == generateToken(u, AuthenticationScope, plain)
          IN /\ Fresh(plain)
             /\ \A row \in tokenRows : row.Hash # t.Hash
             /\ tokenRows' = tokenRows \cup {InsertToken(t)}
             /\ issued' = issued \cup {t}
    /\ UNCHANGED <<rateLimitVars, sideVars, crashed, grants, jobVars, users>>

\* time passes the Expiry of an activation token issued while the server runs
TokenExpires ==
    /\ Running
    /\ \E row \in tokenRows \ StoredTokens :
          /\ ~row.expired
          /\ row.Scope = ActivationScope
          /\ tokenRows' = (tokenRows \ {row}) \cup {[row EXCEPT !.expired = TRUE]}
    /\ UNCHANGED <<rateLimitVars, sideVars, crashed, grants, jobVars, users, issued>>

\* the tokens a client may present to the activation route
PresentedTokens == RandomTokens \cup {Plain("unissued")}

\* the answer when no token matched: the nil dereference gives 500; a store
\* that reports sql.ErrNoRows for an empty result gives 404 before it
NoMatchStatus(rows) == IF rows = {} THEN {404, 500} ELSE {500}

\* time.Now().After(matchedToken.Expiry)
ExpiredNever(token) == FALSE
Expired(token) == token.expired

\* the answer of userActivationHandler to an error of Users.Update:
\* ErrorRecordNotFound is 404, ErrEditConflict is 409, any other is 500
UpdateErrorStatus(err) ==
    CASE err = "ErrorRecordNotFound" -> 404
      [] err = "ErrEditConflict" -> 409
      [] OTHER -> 500

\* userActivationHandler up to the match: the tokens of the user are read
\* with the user they belong to; matchedToken.Expiry is read before ok is
\* tested, so a miss is a nil dereference that PanicRecovery answers with 500
ActivateBegin ==
    /\ Running
    /\ BagCardinality(acts) < MaxInFlight
    /\ \E row \in users : \E plain \in PresentedTokens :
          LET m == TokensMatch(GetTokensOfUserID(row.ID, ActivationScope), plain)
          IN IF ~m.ok
             THEN /\ \E status \in NoMatchStatus(GetTokensOfUserID(row.ID, ActivationScope)) :
                        lastAct' = [NoActivation EXCEPT !.user = row.ID, !.status = status,
                                                        !.stage = "match"]
                  /\ UNCHANGED acts
             ELSE IF Expired(m.token)
             THEN /\ lastAct' = [NoActivation EXCEPT !.user = row.ID, !.status = 401,
                                                     !.stage = "match", !.matched = TRUE,
                                                     !.expired = TRUE]
                  /\ UNCHANGED acts
             ELSE /\ acts' = acts (+) SetToBag({[pc |-> "update", user |-> row.ID, token |-> plain,
                                                 version |-> row.Version,
                                                 expired |-> m.token.expired]})
                  /\ lastAct' = NoActivation
    /\ UNCHANGED <<rateLimitVars, crashed, grants, jobVars, dataVars, ok200, movies, upds,
                   lastUpd, pw, updLog, lastReg>>

\* matchedToken.User.Activated = true and Users.Update: UPDATE ... WHERE id = ?
\* and version = ?, the version the user was read with; no row returned is
\* sql.ErrNoRows, which Update returns as ErrorRecordNotFound
ActivateUpdate(a) ==
    /\ Running
    /\ a.pc = "update"
    /\ LET rows == { row \in users : row.ID = a.user /\ row.Version = a.version }
       IN IF rows = {}
          THEN /\ lastAct' = [NoActivation EXCEPT !.user = a.user,
                                 !.status = UpdateErrorStatus("ErrorRecordNotFound"),
                                 !.stage = "update", !.matched = TRUE,
                                 !.expired = a.expired, !.stale = TRUE]
               /\ acts' = acts (-) SetToBag({a})
               /\ UNCHANGED users
          ELSE /\ users' = (users \ rows) \cup
                            {[ID |-> a.user, Activated |-> TRUE, Version |-> a.version + 1]}
               /\ acts' = (acts (-) SetToBag({a})) (+) SetToBag({[a EXCEPT !.pc = "delete"]})
               /\ lastAct' = NoActivation
    /\ UNCHANGED <<rateLimitVars, crashed, grants, jobVars, tokenRows, issued, ok200, movies,
                   upds, lastUpd, pw, updLog, lastReg>>

\* Tokens.DeleteAllForUser(ctx, userID, ActivationScope): no row affected is
\* an error, answered with 500; else the handler writes 200
ActivateDelete(a) ==
    /\ Running
    /\ a.pc = "delete"
    /\ acts' = acts (-) SetToBag({a})
    /\ IF GetTokensOfUserID(a.user, ActivationScope) = {}
       THEN /\ lastAct' = [NoActivation EXCEPT !.user = a.user, !.status = 500,
                                               !.stage = "delete", !.matched = TRUE,
                                               !.expired = a.expired]
            /\ UNCHANGED <<tokenRows, ok200>>
       ELSE /\ tokenRows' = DeleteAllForUser(tokenRows, a.user, ActivationScope)
            /\ lastAct' = [NoActivation EXCEPT !.user = a.user, !.status = 200,
                                               !.stage = "delete", !.matched = TRUE,
                                               !.expired = a.expired]
            /\ ok200' = ok200 (+) SetToBag({a.user})
    /\ UNCHANGED <<rateLimitVars, crashed, grants, jobVars, users, issued, movies, upds,
                   lastUpd, pw, updLog, lastReg>>

\* the users whose registration is being handled: registerUserHandler
\* inserted them and granted movies:read, and has not dispatched the job yet
Registering == {"n1", "n2"}
InitTokens ==
    /\ RateLimitIdle({ RateLimitConfig(FALSE, MaxRate) },
                     [conc |-> 1, total |-> 0, addrs |-> {"A"}, inputs |-> FewInputs])
    /\ SideIdle
    /\ users = { [ID |-> id, Activated |-> FALSE, Version |-> 1] : id \in Registering }
    /\ tokenRows = StoredTokens
    /\ issued = IssuedBefore
    /\ grants = [u \in Users \cup Registering |->
                    IF u \in Registering THEN {"movies:read"} ELSE Grants(u)]
    /\ wg = 0
    /\ jobs = EmptyBag
    /\ regs = SetToBag({ [pc |-> "dispatch", user |-> id] : id \in Registering })
    /\ mainPc = "listen"
    /\ gsPc = "quit"
    /\ jobLog = [dispatched |-> 0, ended |-> 0, panics |-> 0, deadline |-> FALSE]

\* the steps that read or write the users and the tokens; the mail loop of a
\* job (JobSend, JobSleep, JobRecover, JobDone) leaves both unchanged
NextTokens ==
    \/ \E r \in BagToSet(regs) : RegisterDispatch(r)
    \/ \E r \in BagToSet(regs) : RegisterRespond(r)
    \/ \E j \in BagToSet(jobs) : JobTokenNew(j)
    \/ CreateBearerToken
    \/ TokenExpires
    \/ ActivateBegin
    \/ \E a \in BagToSet(acts) : ActivateUpdate(a)
    \/ \E a \in BagToSet(acts) : ActivateDelete(a)
SpecTokens == InitTokens /\ [][NextTokens]_vars


(***************************************************************************)
(* The update of a movie (data/movies.go MovieModel.Update, api/movies.go  *)
(* updateMovieHandler).                                                    *)
(***************************************************************************)

MovieIds == {1, 2}
\* the id of no movie
MissingId == 3
\* the titles of the request bodies; the empty title fails Movie.Validator
Titles == {"t1", "t2", ""}
\* the version Insert stored: the zero value of the struct, or the default
\* of the column
InsertedVersions == {0, 1}

\* movies.go MovieModel.Select: SELECT ... WHERE id = ?
MovieSelect(store, id) ==
    IF id \in DOMAIN store THEN [movie |-> store[id], err |-> "nil"]
    ELSE [movie |-> [Title |-> "", Version |-> 0], err |-> "ErrorRecordNotFound"]

\* an UPDATE without the version in its WHERE clause
MovieUpdateUnfiltered(store, id, movie) ==
    [store |-> [store EXCEPT ![id] = [movie EXCEPT !.Version = @ + 1]], err |-> "nil"]

\* movies.go MovieModel.Update: movie.Version += 1, then UPDATE ... SET the
\* fields of the movie WHERE id = ? AND version = movie.Version, the version
\* already incremented; no row returned is sql.ErrNoRows, ErrEditConflict
MovieUpdate(store, id, movie) ==
    LET m == [movie EXCEPT !.Version = @ + 1]
    IN IF id \in DOMAIN store /\ store[id].Version = m.Version
       THEN [store |-> [store EXCEPT ![id] = m], err |-> "nil"]
       ELSE [store |-> store, err |-> "ErrEditConflict"]

\* the id parameter of the path: whether strconv.ParseInt reads it, and the
\* number it reads
IdParams ==
    { [parses |-> TRUE, id |-> i] : i \in MovieIds \cup {MissingId, 0} }
    \cup { [parses |-> FALSE, id |-> 0] }

\* helpers readIDParam: (0, err) when ParseInt fails, (0, nil) for an id
\* below 1, since err is nil then
readIDParam(param) ==
    IF ~param.parses THEN [id |-> 0, err |-> "strconv.ParseInt: invalid syntax"]
    ELSE IF param.id < 1 THEN [id |-> 0, err |-> "nil"]
    ELSE [id |-> param.id, err |-> "nil"]

\* the answer of updateMovieHandler as the response writer c holds it
UpdateAnswer(id, c) ==
    [NoUpdate EXCEPT !.id = id, !.status = c.status, !.written = Len(c.body)]

\* updateMovieHandler up to the validation: readIDParam, whose error is
\* answered with 404 without a return, Select, readJson, the fields of the
\* body are applied to the movie that was read, Validator
UpdateSelect ==
    /\ ~crashed
    /\ BagCardinality(upds) < MaxInFlight
    /\ BagCardinality(upds) + BagCardinality(updLog) < MaxRequests
    /\ \E param \in IdParams : \E title \in Titles :
          LET read == readIDParam(param)
              c0 == IF read.err # "nil" THEN notFoundResponse(NewCtx) ELSE NewCtx
              sel == MovieSelect(movies, read.id)
          IN IF sel.err # "nil"
             THEN /\ lastUpd' = UpdateAnswer(read.id, notFoundResponse(c0))
                  /\ UNCHANGED upds
             ELSE IF title = ""
             THEN /\ lastUpd' = UpdateAnswer(read.id, writeJson(c0, 422, "validation"))
                  /\ UNCHANGED upds
             ELSE /\ upds' = upds (+) SetToBag({[id |-> read.id,
                                                 movie |-> [sel.movie EXCEPT !.Title = title]]})
                  /\ lastUpd' = NoUpdate
    /\ UNCHANGED <<rateLimitVars, crashed, grants, jobVars, dataVars, acts, lastAct, ok200,
                   movies, pw, updLog, lastReg>>

\* Movies.Update(context.Background(), nMovie.ID, nMovie) and the answer:
\* ErrEditConflict is 409, no error is 200
UpdateWrite(u) ==
    /\ ~crashed
    /\ LET r == MovieUpdate(movies, u.id, u.movie)
           status == IF r.err = "nil" THEN 200 ELSE 409
       IN /\ movies' = r.store
          /\ lastUpd' = [id |-> u.id, version |-> u.movie.Version,
                         stored |-> movies[u.id].Version, after |-> r.store[u.id].Version,
                         changed |-> r.store # movies,
                         status |-> status, written |-> 1]
          /\ updLog' = updLog (+) SetToBag({[id |-> u.id, version |-> u.movie.Version,
                                             status |-> status]})
    /\ upds' = upds (-) SetToBag({u})
    /\ UNCHANGED <<rateLimitVars, crashed, grants, jobVars, dataVars, acts, lastAct, ok200, pw,
                   lastReg>>

InitMovies ==
    /\ RateLimitIdle({ RateLimitConfig(FALSE, MaxRate) },
                     [conc |-> 1, total |-> 0, addrs |-> {"A"}, inputs |-> FewInputs])
    /\ JobsIdle
    /\ DataInitial
    /\ grants = [u \in Users |-> Grants(u)]
    /\ acts = EmptyBag
    /\ lastAct = NoActivation
    /\ ok200 = EmptyBag
    /\ movies \in [MovieIds -> { [Title |-> "t0", Version |-> v] : v \in InsertedVersions }]
    /\ upds = EmptyBag
    /\ lastUpd = NoUpdate
    /\ pw = NoPassword
    /\ updLog = EmptyBag
    /\ lastReg = NoRegistration
NextMovies ==
    \/ UpdateSelect
    \/ \E u \in BagToSet(upds) : UpdateWrite(u)
SpecMovies == InitMovies /\ [][NextMovies]_vars


(***************************************************************************)
(* The password of a user (data/users.go Password.Set, Password.Match)     *)
(* over bcrypt.                                                            *)
(***************************************************************************)

\* len(passString) in bytes
ByteLen(str) == str.reps * str.unit + (str.reps - 1)

\* the plaintexts of the calls: empty, short, repeated over a NUL byte, and
\* around the 72 bytes of bcrypt
Passwords ==
    { Text("", 0, 1, "") }
    \cup { Text(h, u, 1, "") : h \in {"a", "b"}, u \in {8, 71, 72} }
    \cup { Text(h, 8, 2, "") : h \in {"a", "b"} }
    \cup { Text(h, u, 1, t) : h \in {"a", "b"}, u \in {73, 100}, t \in {"x", "y"} }
Salts == {"s1", "s2"}

\* the bytes the Blowfish key schedule of bcrypt reads: 72 bytes of the
\* password followed by a NUL byte, taken cyclically
Key72(str) == [head |-> str.head, len |-> IF str.unit > 72 THEN 72 ELSE str.unit]

\* bcrypt.GenerateFromPassword(password, 12)
GenerateFromPasswordTruncating(str, salt) ==
    [hash |-> [cost |-> 12, salt |-> salt, key |-> Key72(str)], err |-> "nil"]
GenerateFromPassword(str, salt) ==
    IF ByteLen(str) > 72 THEN [hash |-> NoHash, err |-> "ErrPasswordTooLong"]
    ELSE [hash |-> [cost |-> 12, salt |-> salt, key |-> Key72(str)], err |-> "nil"]

\* bcrypt.CompareHashAndPassword(hash, password): the hash is parsed, the
\* password is hashed with its cost and salt, the two are compared
CompareHashAndPassword(hash, str) ==
    IF hash = NoHash THEN "ErrHashTooShort"
    ELSE IF hash.key = Key72(str) THEN "nil"
    ELSE "ErrMismatchedHashAndPassword"

\* users.go Password.Set on the Password p
PasswordSet(p, passString, salt) ==
    LET g == GenerateFromPassword(passString, salt)
    IN IF g.err = "ErrPasswordTooLong" THEN [p |-> p, err |-> "ErrorPasswordTooLong"]
       ELSE IF g.err # "nil" THEN [p |-> p, err |-> g.err]
       ELSE [p |-> [Plaintext |-> passString, Hash |-> g.hash], err |-> "nil"]

\* users.go Password.Match
PasswordMatch(p) ==
    LET err == CompareHashAndPassword(p.Hash, p.Plaintext)
    IN IF err = "ErrMismatchedHashAndPassword" THEN [ok |-> FALSE, err |-> "nil"]
       ELSE IF err # "nil" THEN [ok |-> FALSE, err |-> err]
       ELSE [ok |-> TRUE, err |-> "nil"]

\* user.Password.Set(input.Password) on the Password of a new User
SetCall ==
    \E passString \in Passwords : \E salt \in Salts :
        LET r == PasswordSet(EmptyPassword, passString, salt)
        IN pw' = [call |-> "Set", p |-> r.p, arg |-> passString, ok |-> FALSE, err |-> r.err,
                  from |-> IF r.err = "nil" THEN passString ELSE NilString]
    /\ UNCHANGED <<rateLimitVars, crashed, grants, jobVars, dataVars, acts, lastAct, ok200,
                   movies, upds, lastUpd, updLog, lastReg>>

\* BasicAuth: Password{Plaintext: &pass, Hash: nUser.Password.Hash}.Match()
\* with the hash the last Set produced
MatchCall ==
    \E pass \in Passwords :
        LET inputPass == [Plaintext |-> pass, Hash |-> pw.p.Hash]
            r == PasswordMatch(inputPass)
        IN pw' = [call |-> "Match", p |-> inputPass, arg |-> pass, ok |-> r.ok, err |-> r.err,
                  from |-> pw.from]
    /\ UNCHANGED <<rateLimitVars, crashed, grants, jobVars, dataVars, acts, lastAct, ok200,
                   movies, upds, lastUpd, updLog, lastReg>>

NextPassword == SetCall \/ MatchCall
SpecPassword == InitJobs /\ [][NextPassword]_vars


(***************************************************************************)
(* The registration step by step (api/users.go registerUserHandler up to   *)
(* the dispatch of the background job).  A row of users is named by the    *)
(* person who registered: the unique index on the email is that no two     *)
(* rows have the same name.                                                *)
(***************************************************************************)

\* the bodies of POST /v1/users: who registers and with which password
RegisterForms ==
    [ person : Registering,
      password : { Text("a", 8, 1, ""), Text("a", 73, 1, "x"), Text("", 0, 1, "") } ]

\* data.ValidateUser: the password has 8 to 72 bytes (name and email are well
\* formed in every form)
ValidateUser(form) == ByteLen(form.password) >= 8 /\ ByteLen(form.password) <= 72

\* users.go UserModel.Insert: the insert, SQLSTATE 23505 of the unique index
\* on the email is ErrorDuplicateEmail, any other error is returned as it is
UsersInsert(rows, person, db) ==
    IF db = "down" THEN [rows |-> rows, err |-> "db"]
    ELSE IF \E row \in rows : row.ID = person
         THEN [rows |-> rows, err |-> "ErrorDuplicateEmail"]
    ELSE [rows |-> rows \cup {[ID |-> person, Activated |-> FALSE, Version |-> 1]},
          err |-> "nil"]

\* permissions.go AddPermForUser(ctx, userID, "movies:read")
AddPermForUser(perms, userID, code, db) ==
    IF db = "down" THEN [grants |-> perms, err |-> "db"]
    ELSE [grants |-> [u \in DOMAIN perms \cup {userID} |->
                         IF u = userID THEN (IF u \in DOMAIN perms THEN perms[u] ELSE {}) \cup {code}
                         ELSE perms[u]],
          err |-> "nil"]

\* the error answer of a registration
Refused(person, status, cause, inserted) ==
    [user |-> person, status |-> status, cause |-> cause, inserted |-> inserted,
     n |-> lastReg.n + 1]

\* registerUserHandler from Password.Set to Users.Insert
RegisterInsert ==
    /\ Running
    /\ mainPc = "listen"
    /\ lastReg.n + BagCardinality(regs) + BagCardinality(jobs) < MaxRequests
    /\ \E form \in RegisterForms : \E db \in {"up", "down"} :
          LET set == PasswordSet(EmptyPassword, form.password, "s1")
              ins == UsersInsert(users, form.person, db)
          IN IF set.err = "ErrorPasswordTooLong"
             THEN /\ lastReg' = Refused(form.person, 400, set.err, FALSE)
                  /\ UNCHANGED <<users, regs>>
             ELSE IF ~ValidateUser(form)
             THEN /\ lastReg' = Refused(form.person, 422, "validation", FALSE)
                  /\ UNCHANGED <<users, regs>>
             ELSE IF ins.err = "ErrorDuplicateEmail"
             THEN /\ lastReg' = Refused(form.person, 422, ins.err, FALSE)
                  /\ UNCHANGED <<users, regs>>
             ELSE IF ins.err # "nil"
             THEN /\ lastReg' = Refused(form.person, 500, ins.err, FALSE)
                  /\ UNCHANGED <<users, regs>>
             ELSE /\ users' = ins.rows
                  /\ regs' = regs (+) SetToBag({[pc |-> "grant", user |-> form.person]})
                  /\ UNCHANGED lastReg
    /\ UNCHANGED <<rateLimitVars, crashed, grants, wg, jobs, mainPc, gsPc, jobLog, tokenRows,
                   issued, acts, lastAct, ok200, movies, upds, lastUpd, pw, updLog>>

\* registerUserHandler: Permissions.AddPermForUser, whose error is answered
\* with 500
RegisterGrant(r) ==
    /\ Running
    /\ r.pc = "grant"
    /\ \E db \in {"up", "down"} :
          LET add == AddPermForUser(grants, r.user, "movies:read", db)
          IN /\ grants' = add.grants
             /\ IF add.err # "nil"
                THEN /\ lastReg' = Refused(r.user, 500, "AddPermForUser", TRUE)
                     /\ regs' = regs (-) SetToBag({r})
                ELSE /\ regs' = (regs (-) SetToBag({r})) (+) SetToBag({[r EXCEPT !.pc = "dispatch"]})
                     /\ UNCHANGED lastReg
    /\ UNCHANGED <<rateLimitVars, crashed, wg, jobs, mainPc, gsPc, jobLog, dataVars,
                   acts, lastAct, ok200, movies, upds, lastUpd, pw, updLog>>

NextRegister ==
    \/ RegisterInsert
    \/ \E r \in BagToSet(regs) : RegisterGrant(r)
    \/ \E r \in BagToSet(regs) : RegisterDispatch(r)
    \/ \E r \in BagToSet(regs) : RegisterRespond(r)
    \/ \E j \in BagToSet(jobs) : JobTokenNew(j)
SpecRegister == InitJobs /\ [][NextRegister]_vars


(***************************************************************************)
(* Properties of the rate limiter.                                         *)
(***************************************************************************)

\* C1: at no moment do two tasks write the per-client map at the same time
\* (the check-then-insert of a request is one critical section).
C1_OneMapWriter == MapWriters <= 1

\* C2: whatever was handled before, the expiry task of an address that got no
\* further request, whose timer has fired and that waits for the write lock
\* while no request is being handled, is not kept out by read locks: it takes
\* the lock and deletes the entry.
C2_EvictionProceeds ==
    \A id \in EntryIds :
        (/\ exp[id].pc = "locking"
         /\ req = EmptyBag
         /\ leaked[exp[id].addr] = NoneLeaked) => mu.readers = 0

\* C3: the expiry task never deletes an entry whose timer was reset and has
\* not elapsed again since: a step that removes an address from the map does
\* not remove an entry whose timer is running from a Reset.
C3_RenewalExtendsLease ==
    [][ \A a \in Addrs :
          (pcnRL[a] # 0 /\ pcnRL'[a] = 0 /\ ~crashed')
              => ent[pcnRL[a]].timer.running # "reset" ]_vars

\* C3 witness: an entry is in the map, its timer was reset after it had
\* fired, and the expiry task that received the firing is on its way to delete.
C3_ResetBeforeDelete ==
    \E id \in EntryIds :
        /\ exp[id].pc \in {"lock", "locking"}
        /\ pcnRL[exp[id].addr] # 0
        /\ ent[pcnRL[exp[id].addr]].timer.running = "reset"

\* C4: with rate limiting enabled, global rate N and B = N + N/10, as long as
\* the global bucket was not refilled exactly min(arrived, B) requests have
\* passed it; a request it rejects gets 429 and never reaches the router.
C4_GlobalBurst ==
    LET N == config.globalRateLimit
        B == N + N \div 10
    IN config.enabled =>
          /\ refills = 0 => passed = IF started < B THEN started ELSE B
          /\ last.path = "global" => last.c.status = 429 /\ ~Entered(last.c, "router")

\* C4 witness: more than B requests arrived without a refill, N/10 is not
\* zero, and the last one was rejected by the global bucket.
C4_Saturated ==
    /\ config.enabled
    /\ config.globalRateLimit \div 10 > 0
    /\ refills = 0
    /\ started > config.globalRateLimit + config.globalRateLimit \div 10
    /\ last.path = "global"

\* C5: a request of one address that waits for the read lock is never kept
\* out for good by what another address's rejected requests left behind: no
\* writer waits in front of it for read locks that only those requests hold.
C5_ClientsIndependent ==
    \A a, b \in Addrs :
        \A r \in BagToSet(req) :
            (a # b /\ r.addr = b /\ r.pc = "rlock" /\ mu.writer # 0)
                => ~(/\ exp[mu.writer].pc = "locking"
                     /\ leaked[a].rejected > 0
                     /\ mu.readers = leaked[a].rejected)

\* C6: in every reachable state there is at most one pending expiry task per
\* client address (a bucket is created only when no entry exists).
C6_OneExpiryTaskPerAddress ==
    \A a \in Addrs :
        Cardinality({ id \in EntryIds : exp[id].pc # "none" /\ exp[id].addr = a }) <= 1

\* C7: with rate limiting enabled the global bucket is consulted first on
\* every request; when it is empty the request gets 429, the router is not
\* called, and the map, the entries, the timers, the expiry tasks, the lock
\* and the requests in flight are unchanged; otherwise it gives one token.
C7_GlobalFirst ==
    [][ (started' = started + 1 /\ config.enabled) =>
           IF nRL = 0
           THEN /\ last'.path = "global"
                /\ last'.c.status = 429
                /\ ~Entered(last'.c, "router")
                /\ UNCHANGED <<nRL, pcnRL, ent, exp, mu, req, leaked>>
           ELSE /\ nRL' = nRL - 1
                /\ last'.path # "global" ]_vars

\* C7 witness: a request was rejected by the global bucket while a client
\* entry with its timer existed.
C7_RejectedWithEntries ==
    /\ last.path = "global"
    /\ \E a \in Addrs : pcnRL[a] # 0 /\ ent[pcnRL[a]].timer.running # "no"

\* C8 as stated: with the rate limiter on, a request whose remote address
\* cannot be split is answered with 500 (never 429).
C8_MalformedAlways500 ==
    (config.enabled /\ last.addr = Malformed) => last.c.status = 500

\* C8 amended: with rate limiting enabled a request whose remote address
\* cannot be split never enters the per-client part; it is answered with 500
\* exactly when the global bucket had a token for it and with 429 otherwise,
\* the router is not called and the map, entries and expiry tasks are unchanged.
C8_MalformedAddress ==
    [][ /\ \A r \in BagToSet(req') : r.addr # Malformed
        /\ (last'.addr = Malformed /\ config.enabled) =>
              /\ last'.path = (IF nRL > 0 THEN "address" ELSE "global")
              /\ last'.c.status = (IF nRL > 0 THEN 500 ELSE 429)
              /\ ~Entered(last'.c, "router")
              /\ UNCHANGED <<pcnRL, ent, exp>> ]_vars

\* C8 witness: a request with a malformed address passed the global bucket
\* and was answered with 500 while the map held an entry.
C8_MalformedAnswered ==
    /\ last.addr = Malformed
    /\ last.path = "address"
    /\ last.c.status = 500
    /\ \E a \in Addrs : pcnRL[a] # 0

(***************************************************************************)
(* Properties of the chain.                                                *)
(***************************************************************************)

\* C9: the stages of a request are entered in the order of the chain, the
\* handler of a movie route only behind the authenticator, the activation
\* gate and the permission gate, and no stage is entered after the response
\* was written.
C9_StagesInOrder ==
    LET s == last.c.stages
    IN /\ \A i, j \in DOMAIN s : i < j => StageRank(s[i]) < StageRank(s[j])
       /\ last.c.status # 0 => last.c.wroteAt = Len(s)
       /\ (Entered(last.c, "handler") /\ last.in.route \in MovieRoutes) =>
             /\ Entered(last.c, "Auth")
             /\ Entered(last.c, "requireActivatedUser")
             /\ Entered(last.c, "requirePermission")

\* C9 witness: the activation gate terminated a request with 403.
C9_GateTerminated ==
    /\ last.c.status = 403
    /\ Len(last.c.stages) > 0
    /\ last.c.stages[Len(last.c.stages)] = "requireActivatedUser"

CalledNext(c, stage) ==
    \E i \in DOMAIN c.stages : c.stages[i] = stage /\ i < Len(c.stages)

\* the tokens rows whose hash is the hash of the token a Bearer header carries
Matching(auth) ==
    IF Len(auth) = 2 /\ auth[1] = "Bearer"
    THEN { t \in StoredTokens : t.Hash = Sum256(auth[2]) }
    ELSE {}

\* C11: Auth calls the downstream handler only for a request whose
\* Authorization header is "Bearer <token>" with the hash of the token stored;
\* every other request, the one without the header included, is answered with
\* an error and does not proceed.
C11_OnlyStoredBearerProceeds ==
    Entered(last.c, "Auth") =>
        /\ CalledNext(last.c, "Auth") => Matching(last.in.auth) # {}
        /\ Matching(last.in.auth) = {} =>
              /\ last.c.status >= 400
              /\ last.c.stages[Len(last.c.stages)] = "Auth"

\* C12: a Bearer token that matches a stored token whose expiry is in the
\* past is answered with 401 and resolves to no identity.
C12_ExpiredTokenRejected ==
    ( /\ Entered(last.c, "Auth")
      /\ last.in.db = "up"
      /\ \E t \in Matching(last.in.auth) : t.expired ) =>
        /\ last.c.status = 401
        /\ ~HasUserContext(last.c)

\* C13: a token stored with the scope activation, presented as a Bearer
\* token, does not authenticate the request as the token's user.
C13_ActivationTokenNotAccepted ==
    \A t \in Matching(last.in.auth) :
        ( /\ Entered(last.c, "Auth")
          /\ t.Scope = ActivationScope ) =>
            /\ last.c.user # t.UserID
            /\ ~CalledNext(last.c, "Auth")

\* C14: behind the activation gate the anonymous identity is answered with
\* 401 "authentication required", an identity that is not activated with 403,
\* in neither case the handler runs; the handler runs only for an identity
\* that is not anonymous and is activated.
C14_AnonymousAndInactiveStopped ==
    Entered(last.c, "requiredNonAnonymousUser") =>
        /\ last.c.user = AnonymousUser =>
              /\ last.c.status = 401
              /\ last.c.body = <<"authentication required">>
              /\ ~Entered(last.c, "handler")
        /\ (last.c.user # AnonymousUser /\ ~Activated(last.c.user)) =>
              /\ last.c.status = 403
              /\ last.c.body = <<"user must be activated to access this resource">>
              /\ ~Entered(last.c, "handler")
        /\ Entered(last.c, "handler") =>
              /\ last.c.user # AnonymousUser
              /\ Activated(last.c.user)

\* C14 witness: a request without credentials was answered by the gate with
\* 401 on a movie route.
C14_AnonymousAnswered401 ==
    /\ last.in.route \in MovieRoutes
    /\ last.in.auth = <<>>
    /\ last.c.user = AnonymousUser
    /\ last.c.status = 401
    /\ last.c.stages[Len(last.c.stages)] = "requiredNonAnonymousUser"

\* C15: the permission gate calls the handler only if the required code is
\* among the identity's grants as the store holds them during that request;
\* once a grant is revoked, a request that starts afterwards is answered 403.
C15_GrantsFetchedPerRequest ==
    (Entered(last.c, "requirePermission") /\ last.in.db = "up") =>
        LET code == RoutePermission(last.in.route)
        IN /\ CalledNext(last.c, "requirePermission") => code \in grants[last.c.user]
           /\ code \notin grants[last.c.user] =>
                 /\ last.c.status = 403
                 /\ ~Entered(last.c, "handler")

\* C15 witness: a request was answered 403 by the permission gate for a code
\* its user was granted at first and that was revoked before the request.
C15_RejectedAfterRevocation ==
    /\ Entered(last.c, "requirePermission")
    /\ last.c.status = 403
    /\ HasUserContext(last.c)
    /\ last.c.user \in Users
    /\ RoutePermission(last.in.route) \in Grants(last.c.user) \ grants[last.c.user]

\* C16: when the grant fetch finds no row, the permission gate answers 403
\* "not permitted", not 500.
C16_NoRowsNotPermitted ==
    (Entered(last.c, "requirePermission") /\ last.in.db = "userDeleted") =>
        /\ last.c.status = 403
        /\ last.c.log = <<>>

\* C17: a movie handler runs only for an identity that is not anonymous, is
\* activated and holds movies:read on the two GET routes, movies:write on the
\* POST, PATCH and DELETE routes.
C17_MovieHandlersGuarded ==
    (Entered(last.c, "handler") /\ last.in.route \in MovieRoutes) =>
        /\ last.c.user \in Users
        /\ last.c.user # AnonymousUser
        /\ Activated(last.c.user)
        /\ last.in.route \in {"GET /v1/movies", "GET /v1/movies/:id"} =>
              "movies:read" \in grants[last.c.user]
        /\ last.in.route \in {"POST /v1/movies", "PATCH /v1/movies/:id",
                               "DELETE /v1/movies/:id"} =>
              "movies:write" \in grants[last.c.user]

\* C17 witness: a movie handler that needs movies:write ran for a user who
\* holds it.
C17_WriteHandlerRan ==
    /\ last.in.route = "DELETE /v1/movies/:id"
    /\ Entered(last.c, "handler")
    /\ last.c.status = 200
    /\ "movies:write" \in grants[last.c.user]

\* C18: every structural failure of Basic authentication (header missing or
\* malformed, validation failed, email unknown, password wrong) gets the same
\* status, message and challenge header.
C18_BasicFailuresUniform ==
    (Entered(last.c, "BasicAuth") /\ last.in.db = "up" /\ last.c.status >= 400) =>
        /\ last.c.status = 401
        /\ last.c.body = <<"invalid authentication creds or token">>
        /\ "WWW-Authenticate" \in last.c.hdr

\* C19: under JWTAuth a request without Authorization header reaches the
\* handler as the anonymous identity and gets no error; a request that
\* reaches the handler with a token has a token whose signature verifies and
\* that is not expired, and its identity is the user with the email of the
\* token's claim, never the anonymous identity.
C19_JWTAnonymousOrIdentified ==
    Entered(last.c, "JWTAuth") =>
        /\ last.in.auth = <<>> =>
              /\ CalledNext(last.c, "JWTAuth")
              /\ last.c.user = AnonymousUser
              /\ last.c.status = 200
        /\ (last.in.auth # <<>> /\ CalledNext(last.c, "JWTAuth")) =>
              /\ Len(last.in.auth) = 2
              /\ last.in.auth[2] \in JWTs
              /\ last.in.auth[2].signature = "valid"
              /\ last.c.user \in Users
              /\ last.c.user # AnonymousUser
              /\ EmailOf(last.c.user) = last.in.auth[2].email

\* C19 witness: a request with a verified token reached the handler as the
\* user of the token's email claim.
C19_VerifiedTokenProceeded ==
    /\ last.in.route = "GET /v1/healthcheck"
    /\ last.in.auth = <<"Bearer", JWT("valid", "future", EmailOf("u1"))>>
    /\ Entered(last.c, "handler")
    /\ last.c.user = "u1"
    /\ last.c.status = 200

\* C20: a JWT whose exp is in the past is answered with 401 also when its
\* signature verifies; the handler is not called and the store is not asked
\* for an identity.
C20_ExpiredJWTRejected ==
    ( /\ Entered(last.c, "JWTAuth")
      /\ Len(last.in.auth) = 2
      /\ last.in.auth[2] \in JWTs
      /\ last.in.auth[2].exp = "past" ) =>
        /\ last.c.status = 401
        /\ ~Entered(last.c, "handler")
        /\ ~HasUserContext(last.c)
        /\ last.c.queries = <<>>

\* C20 witness: an expired token with a valid signature and the email of a
\* registered user was answered with 401.
C20_ExpiredValidSignature ==
    /\ Entered(last.c, "JWTAuth")
    /\ last.in.auth = <<"Bearer", JWT("valid", "past", EmailOf("u1"))>>
    /\ last.c.status = 401


(***************************************************************************)
(* Properties of the background jobs and of the shutdown.                  *)
(***************************************************************************)

\* C21: the wait-group counter is the number of background jobs dispatched
\* and not yet ended, and it is never negative.
C21_CounterCountsRunningJobs ==
    /\ wg >= 0
    /\ wg = jobLog.dispatched - jobLog.ended
    /\ wg = BagCardinality(jobs)

\* C21 witness: one job has ended and another one is still running.
C21_OneEndedOneRunning ==
    /\ jobLog.ended = 1
    /\ wg = 1
    /\ \E j \in BagToSet(jobs) : j.pc = "send"

\* C22: a panic of a background job never ends the process, and once a job
\* has panicked a shutdown that waits for the drain still completes.
C22_PanickingJobContained ==
    /\ [](~crashed)
    /\ (jobLog.panics > 0 /\ gsPc = "wait" /\ mainPc = "recv") ~> (mainPc = "returned")

\* C22 witness: a job panicked, the shutdown waited for the drain without
\* hitting the deadline, and Api() returned.
C22_ReturnedAfterPanic ==
    /\ jobLog.panics > 0
    /\ ~jobLog.deadline
    /\ mainPc = "returned"
    /\ wg = 0

\* C23: the wait for the background jobs starts only after the HTTP server
\* has stopped, and Api() has returned only if no background job is running
\* or the deadline of Shutdown elapsed.
C23_ApiWaitsForJobs ==
    /\ (gsPc \in {"wait", "sendnil"} /\ mainPc # "returned") =>
          /\ mainPc = "recv"
          /\ regs = EmptyBag
    /\ mainPc = "returned" => (jobs = EmptyBag \/ jobLog.deadline)

\* C23 witness: the server has stopped and Api() is held back by a job that
\* is still running.
C23_ApiHeldByJob ==
    /\ gsPc = "wait"
    /\ mainPc = "recv"
    /\ wg > 0
    /\ ~jobLog.deadline

\* C24: a welcome-email job calls the sender at most 3 times and not again
\* after a send succeeded, sleeps once after every failed send, changes no
\* row of users, and every job ends.
C24_EmailRetryBounded ==
    /\ [](\A j \in BagToSet(jobs) :
            /\ j.sends <= 3
            /\ j.ok => (j.pc = "ret" /\ j.sends = j.fails + 1)
            /\ j.sleeps = IF j.pc = "sleep" THEN j.fails - 1 ELSE j.fails)
    /\ [][JobStep => users' = users]_vars
    /\ (jobs # EmptyBag) ~> (jobs = EmptyBag \/ ~Running)

\* C24 witness: a job gave up after three failed sends and the user it was
\* started for is still registered and as it was inserted.
C24_GaveUpAfterThree ==
    \E j \in BagToSet(jobs) :
        /\ j.fails = 3
        /\ j.sleeps = 3
        /\ j.pc = "ret"
        /\ ~j.ok
        /\ [ID |-> j.user, Activated |-> FALSE, Version |-> 1] \in users

(***************************************************************************)
(* Properties of the token store and of the activation of a user.          *)
(***************************************************************************)

\* matching the plaintext of the issued token t against the stored tokens of
\* its owner and scope succeeds and returns the record of t
RoundTrip(t) ==
    LET m == TokensMatch(GetTokensOfUserID(t.UserID, t.Scope), t.PlainText)
    IN /\ m.ok
       /\ m.token.Hash = t.Hash
       /\ m.token.UserID = t.UserID
       /\ m.token.Scope = t.Scope

Owners == Users \cup Registering
Scopes == {ActivationScope, AuthenticationScope}
Plaintexts == PresentedTokens \cup { Plain(id) : id \in {"t1", "t2", "t3", "t4", "t5"} }

\* C25: the step that issues a token for owner U and scope S stores it so
\* that matching the returned plaintext against the stored tokens of U and S
\* succeeds with the record of that token, and it keeps doing so while that
\* record is stored; a plaintext never issued for U and S matches no record
\* of U and S and gives false.
C25_TokenRoundTrip ==
    /\ [](\A t \in issued : (\E row \in tokenRows : row.Hash = t.Hash) => RoundTrip(t))
    /\ [](\A u \in Owners : \A scope \in Scopes : \A plain \in Plaintexts :
            (\A t \in issued : ~(t.PlainText = plain /\ t.UserID = u /\ t.Scope = scope))
                => TokensMatch(GetTokensOfUserID(u, scope), plain) = [token |-> NoToken, ok |-> FALSE])
    /\ [][\A t \in issued' \ issued : RoundTrip(t)']_vars
\* C25 witness: a token issued while the server runs is stored next to
\* another token of the same owner and scope, and its plaintext matches it
C25_IssuedAmongSeveral ==
    \E t \in issued \ IssuedBefore :
        /\ Cardinality(GetTokensOfUserID(t.UserID, t.Scope)) >= 2
        /\ RoundTrip(t)

\* C26: every row of the token store has the hash, the owner, the scope and
\* the expiry of a token and no plaintext field, while every value an issuing
\* call returned carries the plaintext its hash was computed from.
C26_PlaintextNotStored ==
    /\ \A row \in tokenRows : DOMAIN row = {"Hash", "UserID", "Scope", "expired"}
    /\ \A t \in issued : "PlainText" \in DOMAIN t /\ t.Hash = Sum256(t.PlainText)
\* C26 witness: two tokens issued while the server runs are stored at once
\* for the same owner and scope
C26_TwoTokensSameOwnerScope ==
    \E r1 \in tokenRows \ StoredTokens : \E r2 \in tokenRows \ StoredTokens :
        /\ r1.Hash # r2.Hash
        /\ r1.UserID = r2.UserID
        /\ r1.Scope = r2.Scope

\* C27: when an activation was answered with 200 the user is activated and
\* no activation token of the user is stored, and no user is ever answered
\* with 200 a second time: after the first 200 the store holds no activation
\* token of the user.
C27_ActivationConsumesTokens ==
    /\ lastAct.status = 200 =>
          /\ \E row \in users : row.ID = lastAct.user /\ row.Activated
          /\ GetTokensOfUserID(lastAct.user, ActivationScope) = {}
    /\ \A u \in BagToSet(ok200) :
          /\ CopiesIn(u, ok200) = 1
          /\ GetTokensOfUserID(u, ActivationScope) = {}
\* C27 witness: a user was answered with 200 once, and a later activation of
\* the same user ended with another answer
C27_SecondActivationRefused ==
    /\ CopiesIn(lastAct.user, ok200) = 1
    /\ lastAct.status \in {404, 500}

(***************************************************************************)
(* Properties of the update of a movie.                                    *)
(***************************************************************************)

\* C28: when MovieModel.Update was called with a movie whose version equals
\* the stored version the call succeeds (200) and the stored version is 1
\* higher; when it was called with a version older than the stored one the
\* store is unchanged and the answer is the edit conflict, 409.
C28_OptimisticLocking ==
    lastUpd.status \in {200, 409} =>
        /\ lastUpd.version = lastUpd.stored =>
              lastUpd.status = 200 /\ lastUpd.after = lastUpd.stored + 1
        /\ lastUpd.version < lastUpd.stored =>
              lastUpd.status = 409 /\ ~lastUpd.changed

(***************************************************************************)
(* Properties of the password.                                             *)
(***************************************************************************)

\* C29: Set on a new Password returns an error for a plaintext of more than
\* 72 bytes and leaves its plaintext and hash unset; for a plaintext of at
\* most 72 bytes it returns no error and the Password holds that plaintext
\* and a hash that is not empty.
C29_SetRejectsOver72 ==
    pw.call = "Set" =>
        IF ByteLen(pw.arg) > 72
        THEN pw.err # "nil" /\ pw.p = EmptyPassword
        ELSE pw.err = "nil" /\ pw.p.Plaintext = pw.arg /\ pw.p.Hash # NoHash
\* C29 witness: Set was called with 73 bytes and returned the error
C29_Rejected73Bytes ==
    /\ pw.call = "Set"
    /\ ByteLen(pw.arg) = 73
    /\ pw.err = "ErrorPasswordTooLong"

\* C30: Match returns true exactly when the candidate is the string from
\* which Set produced the hash; a mismatch is (false, no error), and false
\* comes with an error only for a hash that no Set produced.
C30_MatchIffExactString ==
    pw.call = "Match" =>
        /\ pw.ok <=> (pw.from # NilString /\ pw.arg = pw.from)
        /\ (~pw.ok /\ pw.from # NilString) => pw.err = "nil"

(***************************************************************************)
(* Properties of the error answers of the activation.                      *)
(***************************************************************************)

\* C31: an activation whose Users.Update went through has stored Activated
\* and a version above the one it read, and an activation whose Users.Update
\* found the stored version moved on is answered with 409.
C31_StaleUserUpdateConflict ==
    /\ \A a \in BagToSet(acts) :
          a.pc = "delete" =>
              \E row \in users : row.ID = a.user /\ row.Activated /\ row.Version > a.version
    /\ (lastAct.stage = "update" /\ lastAct.stale) => lastAct.status = 409

\* C33: an activation whose token matched a stored activation token that had
\* expired is answered with 401 by the match, and the step that answers it
\* changes no user and no token.
C33_ExpiredTokenRefused ==
    /\ []((lastAct.matched /\ lastAct.expired) =>
            (lastAct.status = 401 /\ lastAct.stage = "match"))
    /\ [][(lastAct' # lastAct /\ lastAct'.matched /\ lastAct'.expired) =>
            (users' = users /\ tokenRows' = tokenRows /\ ok200' = ok200)]_vars
\* C33 witness: the expired token of a user was presented and answered with
\* 401; the user is not activated, at version 1, and the token is stored
C33_ExpiredPresented ==
    /\ lastAct.matched /\ lastAct.expired /\ lastAct.status = 401
    /\ [ID |-> lastAct.user, Activated |-> FALSE, Version |-> 1] \in users
    /\ \E row \in GetTokensOfUserID(lastAct.user, ActivationScope) : row.expired

\* C34: an activation whose well-formed token matched none of the stored
\* activation tokens of the user is answered with 401.
C34_UnmatchedTokenRefused ==
    (lastAct.stage = "match" /\ ~lastAct.matched) => lastAct.status = 401

(***************************************************************************)
(* Properties of concurrent updates of a movie and of the answers of the   *)
(* update handler.                                                         *)
(***************************************************************************)

\* C32: of the Update calls for one movie that were made with the same
\* version read, at most one was applied; a call that was not applied is
\* answered with 409 and changes nothing, and every applied call leaves the
\* stored version exactly 1 above the one it found.
C32_NoLostUpdate ==
    /\ \A w \in BagToSet(updLog) : w.status = 200 => CopiesIn(w, updLog) = 1
    /\ lastUpd.status \in {200, 409} =>
          /\ lastUpd.changed <=> lastUpd.status = 200
          /\ lastUpd.changed => lastUpd.after = lastUpd.stored + 1
\* C32 witness: two updates of one movie that read the same version have both
\* run their writes
C32_BothWritesRan ==
    \E w1 \in BagToSet(updLog) : \E w2 \in BagToSet(updLog) :
        /\ w1.id = w2.id
        /\ w1.version = w2.version
        /\ (w1 = w2 => CopiesIn(w1, updLog) >= 2)
        /\ upds = EmptyBag

\* C38: the update handler writes one response for a request: after an error
\* answer nothing more is written.
C38_OneResponse ==
    lastUpd.status # 0 => lastUpd.written = 1

(***************************************************************************)
(* Properties of the header check of the JWT authentication.               *)
(***************************************************************************)

\* C35: under JWTAuth a request whose Authorization header is present and is
\* not two parts with the scheme Bearer is answered with 401; no handler is
\* called for it, no identity is looked up and nothing panics.
C35_MalformedJWTHeaderRefused ==
    ( /\ Entered(last.c, "JWTAuth")
      /\ last.in.auth # <<>>
      /\ (Len(last.in.auth) # 2 \/ last.in.auth[1] # "Bearer") ) =>
        /\ last.c.status = 401
        /\ ~last.c.panicked
        /\ ~Entered(last.c, "handler")
        /\ last.c.queries = <<>>

(***************************************************************************)
(* Properties of the registration.                                         *)
(***************************************************************************)

\* C36: a registration is about to answer 202 only with its user stored not
\* activated and granted movies:read; the answer to a registration with a
\* taken email is 422 and its step changes no user, no grant and no job; a
\* registration answered with an error has left no user row of its own.
C36_RegistrationAllOrNothing ==
    /\ [](\A r \in BagToSet(regs) : r.pc \in {"dispatch", "respond"} =>
             /\ [ID |-> r.user, Activated |-> FALSE, Version |-> 1] \in users
             /\ "movies:read" \in grants[r.user])
    /\ [][(lastReg' # lastReg /\ lastReg'.cause = "ErrorDuplicateEmail") =>
            /\ lastReg'.status = 422
            /\ users' = users /\ grants' = grants /\ jobs' = jobs /\ regs' = regs]_vars
    /\ [](lastReg.status >= 400 => ~lastReg.inserted)

\* the users a registration of the run may create
JobUsers == { NewUserSeq[k] : k \in 1..MaxJobs }

\* C37: once a registration has been answered and its background job is
\* running, the job gets to the point where exactly one activation token of
\* the user is stored and the welcome email was attempted, unless the token
\* store failed or the process ended.
C37_JobStoresTokenAndMails ==
    \A u \in JobUsers :
        (Cancelled(u) /\ \E j \in BagToSet(jobs) : j.user = u)
            ~> \/ /\ Cardinality(GetTokensOfUserID(u, ActivationScope)) = 1
                  /\ \E j \in BagToSet(jobs) : j.user = u /\ j.sends >= 1
               \/ \E j \in BagToSet(jobs) : j.user = u /\ j.tokenErr = "db"
               \/ ~Running

(***************************************************************************)
(* Properties of the lock of the rate limiter.                             *)
(***************************************************************************)

\* C39: a request the rate limiter has rejected for its client or handed to
\* the router holds no read lock of the per-client map, and no read lock is
\* held while no request is inside the rate limiter.
C39_ReadLocksReleased ==
    /\ last.path \in {"client", "served"} => last.held = 0
    /\ req = EmptyBag => mu.readers = 0

\* C40: with the goroutines scheduled fairly and a waiting writer keeping new
\* readers out, the requests inside the rate limiter all leave it, rejected or
\* handed on.
C40_EveryRequestLeaves ==
    (req # EmptyBag) ~> (req = EmptyBag \/ crashed)

====
